---- MODULE Spec2Model ----
(***************************************************************************)
(* Model of cc-helper (claudeprofile): the profile store (a directory of   *)
(* JSON files), the slug function that names the files, and the editor     *)
(* flows that write profiles.                                              *)
(*                                                                         *)
(* Strings are sequences of one-character strings, so that toLowerCase,    *)
(* trim, the slug regular expressions, endsWith and the default sort order *)
(* of file names are computed character by character, as the code does.    *)
(***************************************************************************)
EXTENDS Integers, Sequences, FiniteSets, TLC

VARIABLES files, last, ui

vars == <<files, last, ui>>

(***************************************************************************)
(* Characters: printable ASCII, in code order (32 .. 126); code 96, the    *)
(* grave accent, is written "btick".  ETX is the control character of code *)
(* 3, which a terminal in raw mode sends for Ctrl-C.                       *)
(***************************************************************************)
Ascii ==
  << " ", "!", "\"", "#", "$", "%", "&", "'", "(", ")", "*", "+", ",", "-", ".", "/",
     "0", "1", "2", "3", "4", "5", "6", "7", "8", "9", ":", ";", "<", "=", ">", "?",
     "@", "A", "B", "C", "D", "E", "F", "G", "H", "I", "J", "K", "L", "M", "N", "O",
     "P", "Q", "R", "S", "T", "U", "V", "W", "X", "Y", "Z", "[", "\\", "]", "^", "_",
     "btick", "a", "b", "c", "d", "e", "f", "g", "h", "i", "j", "k", "l", "m", "n", "o",
     "p", "q", "r", "s", "t", "u", "v", "w", "x", "y", "z", "{", "|", "}", "~" >>

ETX == "ETX"

CharSet == { Ascii[i] : i \in 1..Len(Ascii) } \cup { ETX }

\* The UTF-16 code unit of a character.
CodeOf ==
  [ c \in CharSet |->
      IF c = ETX THEN 3 ELSE 31 + (CHOOSE i \in 1..Len(Ascii) : Ascii[i] = c) ]

Code(c) == CodeOf[c]

IsUpper(c) == Code(c) >= 65 /\ Code(c) <= 90

IsLowerAlnum(c) == \/ (Code(c) >= 97 /\ Code(c) <= 122)
                   \/ (Code(c) >= 48 /\ Code(c) <= 57)

\* String.prototype.toLowerCase, on one character and on a string.
LowerChar(c) == IF IsUpper(c) THEN Ascii[Code(c) + 32 - 31] ELSE c

toLowerCase(s) == [ i \in 1..Len(s) |-> LowerChar(s[i]) ]

\* String.prototype.trim: leading and trailing white space removed.
RECURSIVE TrimLeft(_)
TrimLeft(s) == IF s # <<>> /\ Head(s) = " " THEN TrimLeft(Tail(s)) ELSE s

RECURSIVE TrimRight(_)
TrimRight(s) ==
  IF s # <<>> /\ s[Len(s)] = " " THEN TrimRight(SubSeq(s, 1, Len(s) - 1)) ELSE s

trim(s) == TrimRight(TrimLeft(s))

\* String.prototype.endsWith.
endsWith(s, suffix) ==
  /\ Len(suffix) <= Len(s)
  /\ SubSeq(s, Len(s) - Len(suffix) + 1, Len(s)) = suffix

\* The default Array.prototype.sort order on strings: code units, left to right.
RECURSIVE StrLess(_, _)
StrLess(a, b) ==
  IF b = <<>> THEN FALSE
  ELSE IF a = <<>> THEN TRUE
  ELSE IF Head(a) # Head(b) THEN Code(Head(a)) < Code(Head(b))
  ELSE StrLess(Tail(a), Tail(b))

(***************************************************************************)
(* slugify / toProfileFileKey                                              *)
(***************************************************************************)
\* .replace(/[^a-z0-9]+/g, '-'): every maximal run of other characters
\* becomes one hyphen.
RECURSIVE ReplaceRuns(_)
ReplaceRuns(s) ==
  IF s = <<>> THEN <<>>
  ELSE IF IsLowerAlnum(Head(s)) THEN <<Head(s)>> \o ReplaceRuns(Tail(s))
  ELSE IF Len(s) >= 2 /\ ~IsLowerAlnum(s[2]) THEN ReplaceRuns(Tail(s))
  ELSE <<"-">> \o ReplaceRuns(Tail(s))

\* .replace(/^-+|-+$/g, ''): leading and trailing hyphens removed.
RECURSIVE StripLeft(_)
StripLeft(s) == IF s # <<>> /\ Head(s) = "-" THEN StripLeft(Tail(s)) ELSE s

RECURSIVE StripRight(_)
StripRight(s) ==
  IF s # <<>> /\ s[Len(s)] = "-" THEN StripRight(SubSeq(s, 1, Len(s) - 1)) ELSE s

StripHyphens(s) == StripRight(StripLeft(s))

FallbackSlug == << "p", "r", "o", "f", "i", "l", "e" >>

\* A slug without the `|| 'profile'` fallback.
SlugNoFallback(name) == StripHyphens(ReplaceRuns(toLowerCase(name)))

\* lib/profiles.ts slugify.
slugify(name) ==
  LET slug == StripHyphens(ReplaceRuns(toLowerCase(name)))
  IN  IF slug = <<>> THEN FallbackSlug ELSE slug

\* cli.ts toProfileFileKey: the same, after a trim.
toProfileFileKey(name) ==
  LET slug == StripHyphens(ReplaceRuns(toLowerCase(trim(name))))
  IN  IF slug = <<>> THEN FallbackSlug ELSE slug

(***************************************************************************)
(* The profiles directory.                                                 *)
(*                                                                         *)
(* files maps each file name of the directory to what the file holds:      *)
(* [parses |-> FALSE] for a file readJSONSync throws on, and               *)
(* [parses |-> TRUE, data |-> d] for a JSON object d, a function from the  *)
(* fields it has ("name", "provider", "env") to their values.              *)
(*                                                                         *)
(* A directory that does not exist yet is written as the listing whose     *)
(* only entry has the empty name, which no file has: the loaders find      *)
(* nothing in it, and a write into it fails with ENOENT unless the         *)
(* directory is created first.                                             *)
(***************************************************************************)
\* The directory exists and holds no file.
EmptyDir == << >>

DotJson == << ".", "j", "s", "o", "n" >>

DotExampleJson == << ".", "e", "x", "a", "m", "p", "l", "e", ".", "j", "s", "o", "n" >>

\* path.basename(filename, '.json')
basename(filename) ==
  IF endsWith(filename, DotJson)
    THEN SubSeq(filename, 1, Len(filename) - Len(DotJson))
    ELSE filename

\* `data.f || fallback` for a string field f of a parsed file.
FieldOr(data, f, fallback) ==
  IF f \in DOMAIN data /\ data[f] # <<>> THEN data[f] ELSE fallback

NoEnv == << >>

\* `data.env || {}`
EnvOr(data) == IF "env" \in DOMAIN data THEN data["env"] ELSE NoEnv

Garbage == [ parses |-> FALSE ]

Json(d) == [ parses |-> TRUE, data |-> d ]

\* The directory d with file fn holding c.
WriteFile(d, fn, c) ==
  [ f \in DOMAIN d \cup {fn} |-> IF f = fn THEN c ELSE d[f] ]

\* The directory d without the files of gone.
RemoveFiles(d, gone) == [ f \in DOMAIN d \ gone |-> d[f] ]

\* The profiles directory does not exist.
MissingDir == [ f \in { << >> } |-> Garbage ]

\* fs.existsSync(profilesDir)
existsSync(d) == << >> \notin DOMAIN d

\* lib/profiles.ts ensureProfilesDir: the directory is created when missing.
ensureProfilesDir(d) == IF existsSync(d) THEN d ELSE EmptyDir

\* fs.writeJSONSync throws ENOENT: the directory of the file does not exist.
ENOENT(d) == ~existsSync(d)

\* The names of the files in the directory; none when it does not exist
\* (every loader returns before readdirSync then).
Entries(d) == DOMAIN d \ { << >> }

\* fs.readdirSync(dir).sort(): the file names in code-unit order.
RECURSIVE SortNames(_)
SortNames(S) ==
  IF S = {} THEN <<>>
  ELSE LET least == CHOOSE a \in S : \A b \in S \ {a} : StrLess(a, b)
       IN  <<least>> \o SortNames(S \ {least})

readdirSorted(d) == SortNames(Entries(d))

\* A filter that forgets the example suffix.
IsJsonFile(filename) == endsWith(filename, DotJson)

\* The filter of every loader: .json, and not .example.json.
IsProfileFile(filename) ==
  endsWith(filename, DotJson) /\ ~endsWith(filename, DotExampleJson)

\* The file names a loader reads: the profile files that parse, in order.
Loadable(d) ==
  LET Keep(fn) == IsProfileFile(fn) /\ d[fn].parses
  IN  SelectSeq(readdirSorted(d), Keep)

\* lib/profiles.ts loadProfiles (and cli.ts loadProfiles of the file-key
\* version): one record per loadable file, with its file key.
loadProfiles(d) ==
  LET fns == Loadable(d)
  IN  [ i \in 1..Len(fns) |->
          [ name     |-> FieldOr(d[fns[i]].data, "name", basename(fns[i])),
            provider |-> FieldOr(d[fns[i]].data, "provider", basename(fns[i])),
            env      |-> EnvOr(d[fns[i]].data),
            fileKey  |-> basename(fns[i]) ] ]

\* `profile.fileKey || ...`: the file key is set when it is a non-empty string.
HasFileKey(p) == "fileKey" \in DOMAIN p /\ p.fileKey # <<>>

\* A write that loses the env mapping.
StoredWithoutEnv(p) == Json([ name |-> p.name, provider |-> p.provider ])

\* What writeJSONSync writes for a profile: the record without its fileKey.
Stored(p) == Json([ name |-> p.name, provider |-> p.provider, env |-> p.env ])

\* lib/profiles.ts saveProfile: the directory is created first.
saveProfile(d, p) ==
  LET fileKey == IF HasFileKey(p) THEN p.fileKey ELSE slugify(p.name)
  IN  WriteFile(ensureProfilesDir(d), fileKey \o DotJson, Stored(p))

\* cli.ts saveProfile (the file-key version): the directory afterwards.  With
\* no directory writeJSONSync throws and nothing is written.
cliSaveProfile(d, p) ==
  LET fileKey == IF HasFileKey(p) THEN p.fileKey ELSE toProfileFileKey(p.name)
  IN  IF ENOENT(d) THEN d ELSE WriteFile(d, fileKey \o DotJson, Stored(p))

\* lib/profiles.ts removeProviderProfiles: the stored provider field decides.
removeProviderProfiles(d, providerId) ==
  LET Hit(fn) == /\ IsProfileFile(fn)
                 /\ d[fn].parses
                 /\ "provider" \in DOMAIN d[fn].data
                 /\ d[fn].data["provider"] = providerId
  IN  RemoveFiles(d, { fn \in DOMAIN d : Hit(fn) })

(***************************************************************************)
(* Lookups.                                                                *)
(***************************************************************************)
NotFound == [ notFound |-> TRUE ]

\* Array.prototype.find(...) || null
FindFirst(profiles, hits) ==
  IF hits = {} THEN NotFound
  ELSE profiles[CHOOSE i \in hits : \A j \in hits : i <= j]

\* cli.ts getProfile.
getProfile(d, key) ==
  LET Match(p) == \/ p.provider = key
                  \/ toLowerCase(p.name) = toLowerCase(key)
  IN  LET all == loadProfiles(d)
      IN  FindFirst(all, { i \in 1..Len(all) : Match(all[i]) })

\* cli.ts getProfileByName.
getProfileByName(d, name) ==
  LET Match(p) == toLowerCase(p.name) = toLowerCase(name)
  IN  LET all == loadProfiles(d)
      IN  FindFirst(all, { i \in 1..Len(all) : Match(all[i]) })

\* cli.ts getProfileByFileKey.
getProfileByFileKey(d, fileKey) ==
  LET Match(p) == p.fileKey = fileKey
  IN  LET all == loadProfiles(d)
      IN  FindFirst(all, { i \in 1..Len(all) : Match(all[i]) })

(***************************************************************************)
(* config.ts LocalProfileStore: profiles carry no file key, and the file   *)
(* of a profile is named after its provider.                               *)
(***************************************************************************)
\* LocalProfileStore.listProfiles
listProfiles(d) ==
  LET fns == Loadable(d)
  IN  [ i \in 1..Len(fns) |->
          [ name     |-> FieldOr(d[fns[i]].data, "name", basename(fns[i])),
            provider |-> FieldOr(d[fns[i]].data, "provider", basename(fns[i])),
            env      |-> EnvOr(d[fns[i]].data) ] ]

\* LocalProfileStore.getProfile: name, then provider, both without regard to case.
storeGetProfile(d, key) ==
  LET Match(p) == \/ toLowerCase(p.name) = toLowerCase(key)
                  \/ toLowerCase(p.provider) = toLowerCase(key)
  IN  LET all == listProfiles(d)
      IN  FindFirst(all, { i \in 1..Len(all) : Match(all[i]) })

\* LocalProfileStore.saveProfile: the directory afterwards.  With no
\* directory writeJSONSync throws and nothing is written.
storeSaveProfile(d, p) ==
  IF ENOENT(d) THEN d ELSE WriteFile(d, p.provider \o DotJson, Stored(p))

\* LocalProfileStore.deleteProfile: <<directory afterwards, result>>.
storeDeleteProfile(d, key) ==
  LET profile  == storeGetProfile(d, key)
      filepath == profile.provider \o DotJson
  IN  IF profile = NotFound THEN << d, FALSE >>
      ELSE IF filepath \in DOMAIN d THEN << RemoveFiles(d, {filepath}), TRUE >>
      ELSE << d, TRUE >>

(***************************************************************************)
(* The strings of the store specifications.                                *)
(***************************************************************************)
sGlm == << "g", "l", "m" >>

sGLM == << "G", "L", "M" >>

sMyGlm == << "M", "y", " ", "G", "L", "M" >>

sMYglm == << "M", "Y", " ", "g", "l", "m" >>

sX == << "x" >>

sNone == << "n", "o", "n", "e" >>

sWork == << "w", "o", "r", "k" >>

sWExample == << "w", ".", "e", "x", "a", "m", "p", "l", "e" >>

sBad == << "b", "a", "d" >>

sNotesTxt == << "n", "o", "t", "e", "s", ".", "t", "x", "t" >>

sSpacedGlm == << " ", "g", "l", "m", " " >>

sToken == << "t" >>

TokenEnv == [ ANTHROPIC_AUTH_TOKEN |-> sToken ]

Names == { <<>>, sMyGlm, sGlm }

Providers == { <<>>, sGlm, sX }

Envs == { NoEnv, TokenEnv }

Keys == { <<>>, sGlm, sGLM, sMYglm, sX, sNone, sWork }

\* The profiles handed to a save: with no file key, with the file key of a
\* file a loader read, one whose file key ends like an example file, and one
\* whose name has white space around it.
SaveInputs ==
  { [ name |-> n, provider |-> pr, env |-> e ] :
      n \in Names, pr \in Providers, e \in Envs }
  \cup
  { [ name |-> n, provider |-> pr, env |-> e, fileKey |-> sWork ] :
      n \in Names, pr \in Providers, e \in Envs }
  \cup
  { [ name |-> sMyGlm, provider |-> sGlm, env |-> TokenEnv, fileKey |-> sWExample ],
    [ name |-> sSpacedGlm, provider |-> sGlm, env |-> TokenEnv ] }

\* The profiles handed to LocalProfileStore.saveProfile.
StoreInputs ==
  { [ name |-> n, provider |-> pr, env |-> e ] :
      n \in Names, pr \in Providers, e \in Envs }

\* A directory as a user's editor and the shipped examples leave it: a file
\* that is no JSON, an example file, a file of another kind, a profile file
\* with no provider field, and a profile file not named after its provider.
SeedDir ==
  LET a == WriteFile(EmptyDir, sBad \o DotJson, Garbage)
      b == WriteFile(a, sGlm \o DotExampleJson,
                     Json([ name |-> sMyGlm, provider |-> sGlm, env |-> TokenEnv ]))
      c == WriteFile(b, sNotesTxt, Garbage)
      e == WriteFile(c, sGlm \o DotJson, Json([ name |-> sMyGlm ]))
  IN  WriteFile(e, sWork \o DotJson,
                Json([ name |-> sGlm, provider |-> sX, env |-> TokenEnv ]))

InitDirs == { MissingDir, EmptyDir, SeedDir }

\* At most this many profiles are listed at any time.
MaxProfiles == 2

Idle == [ op |-> "idle" ]

\* No terminal front end is running.
NoUi == [ app |-> "none" ]

Init ==
  /\ files \in InitDirs
  /\ last = Idle
  /\ ui = NoUi

\* lib/profiles.ts saveProfile(p)
SaveProfile ==
  \E p \in SaveInputs :
    /\ last = Idle
    /\ Len(loadProfiles(saveProfile(files, p))) <= MaxProfiles
    /\ files' = saveProfile(files, p)
    /\ UNCHANGED ui
    /\ last' = [ op |-> "saveProfile", p |-> p, pre |-> files ]

\* cli.ts saveProfile(p)
CliSaveProfile ==
  \E p \in SaveInputs :
    /\ last = Idle
    /\ Len(loadProfiles(cliSaveProfile(files, p))) <= MaxProfiles
    /\ files' = cliSaveProfile(files, p)
    /\ UNCHANGED ui
    /\ last' = [ op |-> "cliSaveProfile", p |-> p, pre |-> files,
                 threw |-> ENOENT(files) ]

\* lib/profiles.ts removeProviderProfiles(id)
RemoveProviderProfiles ==
  \E id \in Providers :
    /\ last = Idle
    /\ files' = removeProviderProfiles(files, id)
    /\ UNCHANGED ui
    /\ last' = [ op |-> "removeProviderProfiles", id |-> id, pre |-> files ]

\* lib/profiles.ts loadProfiles()
LoadProfiles ==
  /\ last = Idle
  /\ last' = [ op |-> "loadProfiles", result |-> loadProfiles(files), pre |-> files ]
  /\ UNCHANGED <<files, ui>>

\* cli.ts getProfile(key)
GetProfile ==
  \E key \in Keys :
    /\ last = Idle
    /\ last' = [ op |-> "getProfile", key |-> key,
                 result |-> getProfile(files, key), pre |-> files ]
    /\ UNCHANGED <<files, ui>>

\* LocalProfileStore.listProfiles()
StoreListProfiles ==
  /\ last = Idle
  /\ last' = [ op |-> "storeListProfiles", result |-> listProfiles(files), pre |-> files ]
  /\ UNCHANGED <<files, ui>>

\* The call returns; its caller goes on.
Return ==
  /\ last # Idle
  /\ last' = Idle
  /\ UNCHANGED <<files, ui>>

Next ==
  \/ SaveProfile
  \/ CliSaveProfile
  \/ RemoveProviderProfiles
  \/ LoadProfiles
  \/ StoreListProfiles
  \/ GetProfile
  \/ Return

Spec == Init /\ [][Next]_vars

(***************************************************************************)
(* The LocalProfileStore specification.                                    *)
(***************************************************************************)
\* LocalProfileStore.saveProfile(p)
StoreSaveProfile ==
  \E p \in StoreInputs :
    /\ last = Idle
    /\ Len(listProfiles(storeSaveProfile(files, p))) <= MaxProfiles
    /\ files' = storeSaveProfile(files, p)
    /\ UNCHANGED ui
    /\ last' = [ op |-> "storeSaveProfile", p |-> p, pre |-> files,
                 threw |-> ENOENT(files) ]

\* LocalProfileStore.getProfile(key)
StoreGetProfile ==
  \E key \in Keys :
    /\ last = Idle
    /\ last' = [ op |-> "storeGetProfile", key |-> key,
                 result |-> storeGetProfile(files, key), pre |-> files ]
    /\ UNCHANGED <<files, ui>>

\* LocalProfileStore.deleteProfile(key)
StoreDeleteProfile ==
  \E key \in Keys :
    /\ last = Idle
    /\ files' = storeDeleteProfile(files, key)[1]
    /\ UNCHANGED ui
    /\ last' = [ op |-> "storeDeleteProfile", key |-> key,
                 result |-> storeDeleteProfile(files, key)[2], pre |-> files ]

StoreNext ==
  \/ StoreSaveProfile
  \/ StoreGetProfile
  \/ StoreDeleteProfile
  \/ StoreListProfiles
  \/ Return

StoreSpec == Init /\ [][StoreNext]_vars

(***************************************************************************)
(* Bounded strings, the inputs of the slug specification.                  *)
(***************************************************************************)
MaxSlugLen == 4

SlugChars == { "a", "B", "1", "-", " ", "?" }

RECURSIVE StringsUpTo(_, _)
StringsUpTo(chars, n) ==
  IF n = 0 THEN { <<>> }
  ELSE LET shorter == StringsUpTo(chars, n - 1)
       IN  shorter \cup { <<c>> \o s : c \in chars, s \in { t \in shorter : Len(t) = n - 1 } }

SlugInputs == StringsUpTo(SlugChars, MaxSlugLen) \cup { FallbackSlug }

SlugInit ==
  /\ files = EmptyDir
  /\ ui = NoUi
  /\ \E x \in SlugInputs : last = [ op |-> "input", x |-> x ]

Slugify ==
  /\ last.op = "input"
  /\ last' = [ op |-> "slugify", x |-> last.x,
               out |-> slugify(last.x),
               again |-> slugify(slugify(last.x)),
               key |-> toProfileFileKey(last.x) ]
  /\ UNCHANGED <<files, ui>>

SlugNext == Slugify

SlugSpec == SlugInit /\ [][SlugNext]_vars

(***************************************************************************)
(* Claims about the store.                                                 *)
(***************************************************************************)
\* The file key a save writes under, as the specification states it.
ClaimedFileKey(p) == IF HasFileKey(p) THEN p.fileKey ELSE slugify(p.name)

\* Some loaded record has p's name, provider and env.
LoadsBack(d, p) ==
  \E i \in 1..Len(loadProfiles(d)) :
    /\ loadProfiles(d)[i].name = p.name
    /\ loadProfiles(d)[i].provider = p.provider
    /\ loadProfiles(d)[i].env = p.env

\* C1 as stated: after saveProfile(p), loading all profiles yields a record
\* whose name, provider and env equal p's, for every profile p, also one
\* whose name, provider or env is empty.
C1_RoundTripEveryProfile ==
  last.op = "saveProfile" => LoadsBack(files, last.p)

\* C1 as amended: the round trip holds for every profile whose name and
\* provider are not empty and whose file key does not end in ".example" (its
\* env may be empty); the record read back from the file written has the file
\* key as its name when p's name is empty, and as its provider when p's
\* provider is empty.
C1_RoundTripNamedProfile ==
  last.op = "saveProfile" =>
    LET p   == last.p
        key == ClaimedFileKey(p)
        rec == getProfileByFileKey(files, key)
    IN  /\ ( /\ p.name # <<>>
             /\ p.provider # <<>>
             /\ ~endsWith(key \o DotJson, DotExampleJson) ) => LoadsBack(files, p)
        /\ ~endsWith(key \o DotJson, DotExampleJson) =>
             /\ rec # NotFound
             /\ rec.name = (IF p.name = <<>> THEN key ELSE p.name)
             /\ rec.provider = (IF p.provider = <<>> THEN key ELSE p.provider)
             /\ rec.env = p.env

\* C1's case: a profile with a name, a provider and a token saved into a
\* directory that holds other files.
C1_Witness ==
  /\ last.op = "saveProfile"
  /\ last.p.name = sMyGlm
  /\ last.p.provider = sGlm
  /\ last.p.env = TokenEnv
  /\ last.pre = SeedDir

\* C3: removeProviderProfiles(id) removes exactly the profiles that listing
\* reports with provider id: afterwards no listed profile has provider id,
\* every file of another provider is unchanged, and when no listed profile
\* has provider id the directory is unchanged.
C3_RemovesExactlyListedProvider ==
  last.op = "removeProviderProfiles" =>
    LET before == loadProfiles(last.pre)
        after  == loadProfiles(files)
        gone   == { before[i].fileKey \o DotJson :
                      i \in { j \in 1..Len(before) : before[j].provider = last.id } }
    IN  /\ \A i \in 1..Len(after) : after[i].provider # last.id
        /\ \A fn \in DOMAIN last.pre \ gone : fn \in DOMAIN files /\ files[fn] = last.pre[fn]
        /\ gone = {} => files = last.pre

\* C5: saveProfile(p) writes exactly one file, named p.fileKey when it is set
\* and slugify(p.name) otherwise, replacing a file of that name, and leaves
\* every other file as it was.
C5_SaveWritesOneFile ==
  last.op \in { "saveProfile", "cliSaveProfile" } =>
    LET fn == ClaimedFileKey(last.p) \o DotJson
    IN  /\ Entries(files) = Entries(last.pre) \cup {fn}
        /\ files[fn].parses
        /\ files[fn].data = [ name |-> last.p.name, provider |-> last.p.provider,
                              env |-> last.p.env ]
        /\ \A f \in Entries(last.pre) \ {fn} : files[f] = last.pre[f]

\* The files a listing must report: profile extension, no example suffix, parses.
Listable(d) ==
  { fn \in DOMAIN d :
      endsWith(fn, DotJson) /\ ~endsWith(fn, DotExampleJson) /\ d[fn].parses }

\* The listable file with exactly i - 1 listable files before it in file-name order.
ListableAt(d, i) ==
  CHOOSE fn \in Listable(d) :
    Cardinality({ g \in Listable(d) : StrLess(g, fn) }) = i - 1

\* C6: a listing returns, in file-name order, exactly one record per file
\* that has the profile extension, no example suffix, and parses; files that
\* do not parse are skipped and take no valid profile with them.
C6_ListingIsTheSortedValidFiles ==
  last.op \in { "loadProfiles", "storeListProfiles" } =>
    /\ Len(last.result) = Cardinality(Listable(last.pre))
    /\ \A i \in 1..Len(last.result) :
         LET fn == ListableAt(last.pre, i)
             d  == last.pre[fn].data
         IN  /\ last.result[i].name = FieldOr(d, "name", basename(fn))
             /\ last.result[i].provider = FieldOr(d, "provider", basename(fn))
             /\ last.result[i].env = EnvOr(d)
             /\ last.op = "loadProfiles" => last.result[i].fileKey \o DotJson = fn

\* C6's case: a listing of a directory that holds a file that does not
\* parse, an example file and two valid profiles.
C6_Witness ==
  /\ last.op = "loadProfiles"
  /\ \E fn \in DOMAIN last.pre : IsProfileFile(fn) /\ ~last.pre[fn].parses
  /\ \E fn \in DOMAIN last.pre : endsWith(fn, DotExampleJson)
  /\ Len(last.result) = 2

(***************************************************************************)
(* Claims about LocalProfileStore.                                         *)
(***************************************************************************)
\* The lookup C2 states: the first listed profile whose provider is the key
\* exactly or whose name is the key without regard to case.
ClaimedLookup(listing, key) ==
  LET hits == { i \in 1..Len(listing) :
                  \/ listing[i].provider = key
                  \/ toLowerCase(listing[i].name) = toLowerCase(key) }
  IN  IF hits = {} THEN NotFound
      ELSE listing[CHOOSE i \in hits : \A j \in hits : i <= j]

\* C2: getProfile(key) returns the first profile, in file-name order, whose
\* provider equals key exactly or whose name equals key without regard to
\* case, and not-found when there is none.
C2_LookupExactProviderAnyCaseName ==
  last.op = "storeGetProfile" =>
    last.result = ClaimedLookup(listProfiles(last.pre), last.key)

\* The file the profile getProfile(key) finds was read from.
FoundFile(d, key) ==
  LET listing == listProfiles(d)
      hits == { i \in 1..Len(listing) : listing[i] = storeGetProfile(d, key) }
  IN  Loadable(d)[CHOOSE i \in hits : \A j \in hits : i <= j]

\* C4: deleteProfile(key) returns true exactly when it removed a file: when
\* getProfile(key) finds a profile, that profile's file and no other is gone
\* and the result is true; otherwise the directory is unchanged and the
\* result is false.
C4_DeleteReturnsWhetherRemoved ==
  last.op = "storeDeleteProfile" =>
    /\ last.result = (files # last.pre)
    /\ IF storeGetProfile(last.pre, last.key) # NotFound
         THEN /\ last.result = TRUE
              /\ files = RemoveFiles(last.pre, { FoundFile(last.pre, last.key) })
              /\ FoundFile(last.pre, last.key) \notin DOMAIN files
         ELSE /\ last.result = FALSE
              /\ files = last.pre

(***************************************************************************)
(* Claims about slugify.                                                   *)
(***************************************************************************)
\* Lowercase ASCII letters and digits joined by single hyphens.
WellFormedSlug(s) ==
  /\ \A i \in 1..Len(s) : IsLowerAlnum(s[i]) \/ s[i] = "-"
  /\ \A i \in 1..(Len(s) - 1) : ~(s[i] = "-" /\ s[i + 1] = "-")
  /\ s # <<>> => (s[1] # "-" /\ s[Len(s)] # "-")

\* The input has no letter and no digit: it reduces to nothing.
ReducesToNothing(x) ==
  \A i \in 1..Len(x) : ~IsLowerAlnum(x[i]) /\ ~IsUpper(x[i])

\* C7: slugify is idempotent, its result holds only lowercase letters and
\* digits joined by single hyphens with none leading or trailing, and it is
\* the fallback "profile", never the empty string, for an input that reduces
\* to nothing.
C7_SlugifyIdempotentWellFormed ==
  last.op = "slugify" =>
    /\ last.again = last.out
    /\ WellFormedSlug(last.out)
    /\ last.out # <<>>
    /\ ReducesToNothing(last.x) => last.out = FallbackSlug
    /\ last.key = last.out

\* C7's case: "???" reduces to nothing and gives the fallback.
C7_Witness ==
  /\ last.op = "slugify"
  /\ last.x = << "?", "?", "?" >>
  /\ last.out = FallbackSlug

(***************************************************************************)
(* The terminal front ends.  Two programs drive the store from a terminal: *)
(* the readline program (cli.ts, the file-key version) and the Ink         *)
(* application (cli.tsx with the views under ui/).  ui.app says which one  *)
(* is running.  A step is one key event, one timer, or the exit of the     *)
(* launched child.  The older version of each, which stores a profile      *)
(* under its provider id, has its own specification further down.          *)
(***************************************************************************)
\* cli.ts KNOWN_PROVIDERS (description and authInstructions are only printed).
KNOWN_PROVIDERS ==
  <<
     [ id |-> <<"c","l","a","u","d","e">>,
       name |-> <<"A","n","t","h","r","o","p","i","c"," ","C","l","a","u","d","e">>,
       baseUrl |-> <<"h","t","t","p","s",":","/","/","a","p","i",".","a","n","t","h","r","o","p","i","c",".","c","o","m">>,
       defaultModel |-> <<"c","l","a","u","d","e","-","s","o","n","n","e","t","-","4","-","2","0","2","5","0","5","1","4">>,
       authUrl |-> <<"h","t","t","p","s",":","/","/","c","o","n","s","o","l","e",".","a","n","t","h","r","o","p","i","c",".","c","o","m","/","s","e","t","t","i","n","g","s","/","k","e","y","s">> ],
     [ id |-> <<"g","l","m">>,
       name |-> <<"G","L","M"," ","(","Z","h","i","p","u"," ","A","I",")">>,
       baseUrl |-> <<"h","t","t","p","s",":","/","/","a","p","i",".","z",".","a","i","/","a","p","i","/","a","n","t","h","r","o","p","i","c">>,
       defaultModel |-> <<"G","L","M","-","4",".","7">>,
       authUrl |-> <<"h","t","t","p","s",":","/","/","w","w","w",".","b","i","g","m","o","d","e","l",".","c","n","/","d","e","v","c","e","n","t","e","r","/","a","p","i","k","e","y">> ],
     [ id |-> <<"m","i","n","i","m","a","x">>,
       name |-> <<"M","i","n","i","M","a","x">>,
       baseUrl |-> <<"h","t","t","p","s",":","/","/","a","p","i",".","m","i","n","i","m","a","x",".","i","o","/","a","n","t","h","r","o","p","i","c">>,
       defaultModel |-> <<"M","i","n","i","M","a","x","-","M","2",".","1">>,
       authUrl |-> <<"h","t","t","p","s",":","/","/","p","l","a","t","f","o","r","m",".","m","i","n","i","m","a","x",".","i","o","/","u","s","e","r","-","c","e","n","t","e","r","/","p","a","y","m","e","n","t","/","c","o","d","i","n","g","-","p","l","a","n">> ],
     [ id |-> <<"o","p","e","n","r","o","u","t","e","r">>,
       name |-> <<"O","p","e","n","R","o","u","t","e","r">>,
       baseUrl |-> <<"h","t","t","p","s",":","/","/","o","p","e","n","r","o","u","t","e","r",".","a","i","/","a","p","i","/","v","1">>,
       defaultModel |-> <<"a","n","t","h","r","o","p","i","c","/","c","l","a","u","d","e","-","3",".","5","-","s","o","n","n","e","t">>,
       authUrl |-> <<"h","t","t","p","s",":","/","/","o","p","e","n","r","o","u","t","e","r",".","a","i","/","k","e","y","s">> ]
  >>

sClaude == <<"c","l","a","u","d","e">>

sAnthropic == <<"a","n","t","h","r","o","p","i","c">>

\* The model name used when none is given.
sModel == <<"m","o","d","e","l">>

\* The default of API_TIMEOUT_MS and the value of the traffic flag.
sDefaultTimeout == <<"3","0","0","0","0","0","0">>

sFlagOn == <<"1">>

\* { ...env, ...updates }
SetEnv(env, updates) ==
  [ k \in DOMAIN env \cup DOMAIN updates |->
      IF k \in DOMAIN updates THEN updates[k] ELSE env[k] ]

\* env[key] || ''
EnvGet(env, key) == IF key \in DOMAIN env THEN env[key] ELSE <<>>

\* value || fallback, for strings
OrElse(value, fallback) == IF value # <<>> THEN value ELSE fallback

\* s.slice(0, -1)
DropLast(s) == IF s = <<>> THEN <<>> ELSE SubSeq(s, 1, Len(s) - 1)

\* (i + 1) % n and (i - 1 + n) % n.  With n = 0 the result is NaN in
\* JavaScript, and every later step from NaN is NaN again; NaN is written
\* as -1, which is no index.
NaN == -1
\* The step down that stops at the last row instead of wrapping.
StepDownClamped(i, n) ==
  IF i = NaN \/ n = 0 THEN NaN ELSE IF i + 1 < n THEN i + 1 ELSE i
StepDown(i, n) == IF i = NaN \/ n = 0 THEN NaN ELSE (i + 1) % n
StepUp(i, n) == IF i = NaN \/ n = 0 THEN NaN ELSE (i - 1 + n) % n

(***************************************************************************)
(* Key events.  A key is a record: kind is "return", "escape", "up",       *)
(* "down", "tab", "backspace", "ctrl-c" or "char", and ch is the character *)
(* of a "char" key.                                                        *)
(***************************************************************************)
Key(kind) == [ kind |-> kind, ch |-> "" ]
CharKey(c) == [ kind |-> "char", ch |-> c ]
IsChar(k, c) == k.kind = "char" /\ k.ch = c

\* The child's exit code as the 'exit' event gives it: null when a signal
\* ended the child.  Also the program's own code while it runs.
Null == -1

\* The exit codes drawn for the child.
ChildCodes == { 0, 1, Null }

\* The child of the launched command has ended with this code.
ChildExit(code) == [ op |-> "childExit", code |-> code ]

\* The longest text typed into one prompt or form field.
MaxTyped == 1

\* The longest text typed into the base URL field of a form.
MaxFieldTyped == 2

\* The characters typed into a prompt or a form field, by what is asked.
Typable(field) ==
  CASE field = "name" -> { "a", "A" }
    [] field = "profileName" -> { "a" }
    [] field \in { "custName", "providerName" } -> { "b" }
    [] field \in { "url", "custUrl", "baseUrl", "custAuthUrl" } -> { "a" }
    [] field = "token" -> { "a", " " }
    [] field = "authInstructions" -> { "q" }
    [] OTHER -> {}

(***************************************************************************)
(* The readline program (cli.ts).  ui.pc is the place where the program    *)
(* waits: a key loop ("main", "switch", "configure", "addNew", "auth"), a  *)
(* one-key view ("list", "current", "export"), a text prompt (PromptPcs),  *)
(* a pause after a message ("sleep"), the launched child ("child"), the    *)
(* script that opens a new terminal window ("osascript"), the command      *)
(* that opens the browser ("open"), "rejected" (an exception ended main    *)
(* and nothing reads keys), or "exited".  ui.paused is the state of the    *)
(* stdin stream and ui.children counts the downstream commands started.    *)
(* last records a key that no handler acted on, a removal that was         *)
(* refused, a profile opened in a new window, and the code the child       *)
(* ended with.                                                             *)
(***************************************************************************)
cliMenuItems == << "switch", "configure", "list", "export", "current" >>

\* The prompts of addCustomProfile and of configureProvider.
CustomPcs == { "custName", "custUrl", "custModel", "custAuthUrl", "custAuthInstr" }
EditorPcs == { "name", "url", "token", "model", "timeout" }
PromptPcs == CustomPcs \cup EditorPcs

\* Only the first providers of the catalog are opened from the lists.
MaxProvider == 2

\* The most terminal windows opened in one run.
MaxWindows == 2

\* runProfileInTerminal has asked for a window that runs the profile.
Opened(profile) == [ op |-> "opened", profile |-> profile ]

NoFlow == [ mode |-> "none" ]
NoCust == [ providerName |-> <<>>, baseUrl |-> <<>>, defaultModel |-> <<>>,
            authUrl |-> <<>> ]

\* interactiveMode after setupStdin(), the first draw and setRawMode(true).
\* The keypress listener has put stdin in flowing mode.
CliStart ==
  [ app |-> "cli", pc |-> "main", hooked |-> TRUE, raw |-> TRUE,
    paused |-> FALSE, children |-> 0,
    inputBuffer |-> <<>>, selected |-> 0, escArmed |-> FALSE,
    swSelected |-> 0, runMode |-> "current", cfgSelected |-> 0,
    addSelected |-> 0, from |-> "none", flow |-> NoFlow, cust |-> NoCust,
    notice |-> "none", toRun |-> NotFound, exitCode |-> Null ]

\* prompt(text): raw mode on, empty buffer, a pending callback.
prompt(u, pc) == [ u EXCEPT !.pc = pc, !.raw = TRUE, !.inputBuffer = <<>> ]

\* A message followed by `await new Promise(r => setTimeout(r, ...))`.
Sleep(u, notice) ==
  [ u EXCEPT !.pc = "sleep", !.raw = FALSE, !.inputBuffer = <<>>,
             !.notice = notice ]

\* saveProfile threw ENOENT: configureProvider, the loop that called it and
\* main reject, main().catch logs the error, and the process stays with its
\* keypress listener, no pending prompt and no key loop.
Rejected(u) ==
  [ u EXCEPT !.pc = "rejected", !.raw = FALSE, !.inputBuffer = <<>>,
             !.notice = "ENOENT" ]

\* exitInteractive / process.exit(0)
exitInteractive(u) ==
  [ u EXCEPT !.pc = "exited", !.raw = FALSE, !.hooked = FALSE,
             !.paused = TRUE, !.escArmed = FALSE, !.exitCode = 0 ]

\* The SIGINT handler installed at start-up: it leaves raw mode and exits,
\* and removes no listener.
onSigint(u) == [ u EXCEPT !.pc = "exited", !.raw = FALSE, !.exitCode = 0 ]

\* configureProvider(provider, mode) up to its first prompt.
configureProvider(u, provider, mode, from) ==
  prompt([ u EXCEPT !.from = from, !.notice = "none",
                    !.flow = [ mode |-> mode, provider |-> provider,
                               profileName |-> provider.name,
                               profileFileKey |-> <<>>,
                               baseUrl |-> provider.baseUrl,
                               authMethodSelected |-> 0,
                               authToken |-> <<>>,
                               model |-> <<>> ] ],
         "name")

\* The name loop of configureProvider, for one answer.
NameStep(u, d, nameInput) ==
  LET provider          == u.flow.provider
      mode              == u.flow.mode
      desiredName       == OrElse(trim(nameInput), provider.name)
      existingByName    == getProfileByName(d, desiredName)
      desiredFileKey    == toProfileFileKey(desiredName)
      existingByFileKey == getProfileByFileKey(d, desiredFileKey)
      sameProvider      == /\ existingByName # NotFound
                           /\ existingByName.provider = provider.id
  IN  IF mode = "add" /\ existingByName # NotFound
        THEN prompt([ u EXCEPT !.notice = "nameUsedByProfile" ], "name")
      ELSE IF mode = "edit" /\ existingByName # NotFound /\ ~sameProvider
        THEN prompt([ u EXCEPT !.notice = "nameUsedByProvider" ], "name")
      ELSE IF mode = "add" /\ existingByFileKey # NotFound
        THEN prompt([ u EXCEPT !.notice = "nameCollidesWithFile" ], "name")
      ELSE IF mode = "edit" /\ existingByFileKey # NotFound /\ ~sameProvider
        THEN prompt([ u EXCEPT !.notice = "nameCollidesWithFile" ], "name")
      ELSE prompt([ u EXCEPT !.notice = "none",
                             !.flow.profileName = desiredName,
                             !.flow.profileFileKey =
                                IF sameProvider THEN existingByName.fileKey
                                ELSE desiredFileKey ],
                  "url")

\* The profile that configureProvider saves, given the timeout answer.
EditedProfile(u, d, timeoutInput) ==
  LET existingProfile == getProfileByName(d, u.flow.profileName)
      env == IF existingProfile # NotFound THEN existingProfile.env ELSE NoEnv
  IN  [ name     |-> u.flow.profileName,
        provider |-> u.flow.provider.id,
        fileKey  |-> u.flow.profileFileKey,
        env      |-> SetEnv(env,
                       [ ANTHROPIC_AUTH_TOKEN |-> trim(u.flow.authToken),
                         ANTHROPIC_BASE_URL   |-> u.flow.baseUrl,
                         ANTHROPIC_MODEL      |-> u.flow.model,
                         API_TIMEOUT_MS       |-> OrElse(trim(timeoutInput), sDefaultTimeout),
                         CLAUDE_CODE_DISABLE_NONESSENTIAL_TRAFFIC |-> sFlagOn ]) ]

\* The program after the pending prompt resolved with value: the code that
\* follows the `await prompt(...)` at ui.pc, up to the next wait.
Resume(u, d, value) ==
  CASE u.pc = "custName" ->
         IF trim(value) = <<>>
           THEN prompt([ u EXCEPT !.cust.providerName = value,
                                  !.notice = "providerNameRequired" ], "custName")
           ELSE prompt([ u EXCEPT !.cust.providerName = value,
                                  !.notice = "none" ], "custUrl")
    [] u.pc = "custUrl" ->
         IF trim(value) = <<>>
           THEN Sleep(u, "baseUrlRequired")
           ELSE prompt([ u EXCEPT !.cust.baseUrl = trim(value) ], "custModel")
    [] u.pc = "custModel" ->
         prompt([ u EXCEPT !.cust.defaultModel = OrElse(trim(value), sModel) ],
                "custAuthUrl")
    [] u.pc = "custAuthUrl" ->
         prompt([ u EXCEPT !.cust.authUrl = trim(value) ], "custAuthInstr")
    [] u.pc = "custAuthInstr" ->
         configureProvider(u,
             [ id           |-> toProfileFileKey(u.cust.providerName),
               name         |-> u.cust.providerName,
               baseUrl      |-> u.cust.baseUrl,
               defaultModel |-> u.cust.defaultModel,
               authUrl      |-> u.cust.authUrl ],
             "add", "addNew")
    [] u.pc = "name" -> NameStep(u, d, value)
    [] u.pc = "url" ->
         LET v == [ u EXCEPT !.flow.baseUrl = OrElse(trim(value), u.flow.provider.baseUrl) ]
         IN  IF u.flow.provider.authUrl # <<>>
               THEN [ v EXCEPT !.pc = "auth", !.raw = TRUE, !.inputBuffer = <<>> ]
               ELSE prompt(v, "token")
    [] u.pc = "token" ->
         IF trim(value) = <<>>
           THEN Sleep([ u EXCEPT !.flow.authToken = value ], "noToken")
           ELSE prompt([ u EXCEPT !.flow.authToken = value ], "model")
    [] u.pc = "model" ->
         prompt([ u EXCEPT !.flow.model = OrElse(trim(value), u.flow.provider.defaultModel) ],
                "timeout")
    [] u.pc = "timeout" -> IF ENOENT(d) THEN Rejected(u) ELSE Sleep(u, "saved")

\* The directory after the pending prompt resolved with value.
ResumeFiles(u, d, value) ==
  IF u.pc = "timeout" THEN cliSaveProfile(d, EditedProfile(u, d, value)) ELSE d

\* The return of configureProvider or addCustomProfile to the loop that
\* called it, which draws its list again and turns raw mode on.
ReturnToCaller(u) ==
  [ u EXCEPT !.pc = u.from, !.raw = TRUE, !.from = "none", !.flow = NoFlow,
             !.cust = NoCust, !.notice = "none", !.inputBuffer = <<>> ]

\* interactiveMode: Escape arms the exit, a second Escape while armed exits.
MainEscape ==
  /\ ui.app = "cli" /\ ui.pc = "main"
  /\ ui' = IF ui.escArmed THEN exitInteractive(ui)
           ELSE [ ui EXCEPT !.escArmed = TRUE ]
  /\ files' = files /\ last' = Idle

\* interactiveMode: the 800 ms timer set by Escape runs resetEsc.
MainEscTimer ==
  /\ ui.app = "cli" /\ ui.pc = "main" /\ ui.escArmed
  /\ ui' = [ ui EXCEPT !.escArmed = FALSE ]
  /\ files' = files /\ last' = Idle

\* interactiveMode: 'q'
MainQuit ==
  /\ ui.app = "cli" /\ ui.pc = "main"
  /\ ui' = exitInteractive(ui)
  /\ files' = files /\ last' = Idle

\* interactiveMode: up / 'k' and down / 'j'
MainMove ==
  /\ ui.app = "cli" /\ ui.pc = "main"
  /\ \E dir \in { "up", "down" } :
       ui' = [ ui EXCEPT !.selected =
                 IF dir = "up" THEN StepUp(ui.selected, Len(cliMenuItems))
                 ELSE StepDown(ui.selected, Len(cliMenuItems)) ]
  /\ files' = files /\ last' = Idle

\* interactiveMode: Enter or space opens the selected view.
MainEnter ==
  /\ ui.app = "cli" /\ ui.pc = "main"
  /\ LET view == cliMenuItems[ui.selected + 1]
         u    == [ ui EXCEPT !.escArmed = FALSE, !.raw = TRUE ]
     IN  ui' = CASE view = "switch" ->
                      IF Len(loadProfiles(files)) = 0 THEN u
                      ELSE [ u EXCEPT !.pc = "switch", !.swSelected = 0,
                                      !.runMode = "current" ]
                 [] view = "configure" ->
                      [ u EXCEPT !.pc = "configure", !.cfgSelected = 0 ]
                 [] OTHER -> [ u EXCEPT !.pc = view ]
  /\ files' = files /\ last' = Idle

\* switchProfile: up / 'k' and down / 'j'
SwitchMove ==
  /\ ui.app = "cli" /\ ui.pc = "switch"
  /\ \E dir \in { "up", "down" } :
       LET n == Len(loadProfiles(files))
       IN  ui' = [ ui EXCEPT !.swSelected =
                     IF dir = "up" THEN StepUp(ui.swSelected, n)
                     ELSE StepDown(ui.swSelected, n) ]
  /\ files' = files /\ last' = Idle

\* switchProfile: 'c' toggles between the current and a new terminal.
SwitchToggle ==
  /\ ui.app = "cli" /\ ui.pc = "switch"
  /\ ui' = [ ui EXCEPT !.runMode = IF ui.runMode = "new" THEN "current" ELSE "new" ]
  /\ files' = files /\ last' = Idle

\* switchProfile: Enter leaves raw mode and launches the selected profile.
\* In the current terminal runProfileInCurrentTerminal resumes stdin and
\* blocks in execSync on the child.  For a new terminal runProfileInTerminal
\* blocks in execSync on osascript, which either has the terminal program
\* open a window that runs the command, or fails.
SwitchEnter ==
  /\ ui.app = "cli" /\ ui.pc = "switch"
  /\ LET profile == loadProfiles(files)[ui.swSelected + 1]
     IN  IF ui.runMode = "current"
           THEN /\ ui' = [ ui EXCEPT !.pc = "child", !.raw = FALSE,
                                     !.paused = FALSE, !.toRun = profile,
                                     !.children = @ + 1 ]
                /\ last' = Idle
           ELSE \E opens \in BOOLEAN :
                  /\ opens => ui.children < MaxWindows
                  /\ ui' = [ ui EXCEPT !.pc = "osascript", !.raw = FALSE,
                                       !.children = IF opens THEN @ + 1 ELSE @,
                                       !.notice = IF opens THEN "opening"
                                                  ELSE "openFailed" ]
                  /\ last' = IF opens THEN Opened(profile) ELSE Idle
  /\ files' = files

\* runProfileInTerminal: execSync returns or throws into the catch, and
\* switchProfile returns to the main menu, which draws and turns raw mode on.
OsascriptEnds ==
  /\ ui.app = "cli" /\ ui.pc = "osascript"
  /\ ui' = [ ui EXCEPT !.pc = "main", !.raw = TRUE, !.swSelected = 0,
                       !.runMode = "current", !.notice = "none" ]
  /\ files' = files /\ last' = Idle

\* switchProfile: Escape removes every keypress listener, the one of
\* setupStdin included, and returns.
SwitchEscape ==
  /\ ui.app = "cli" /\ ui.pc = "switch"
  /\ ui' = [ ui EXCEPT !.pc = "main", !.raw = TRUE, !.hooked = FALSE,
                       !.swSelected = 0, !.runMode = "current" ]
  /\ files' = files /\ last' = Idle

\* listProfiles, showCurrent, showExport: any key returns to the main menu.
AnyKeyBack ==
  /\ ui.app = "cli" /\ ui.pc \in { "list", "current", "export" }
  /\ ui' = [ ui EXCEPT !.pc = "main", !.raw = TRUE ]
  /\ files' = files /\ last' = Idle

\* runProfileInCurrentTerminal: execSync returns, or throws into the empty
\* catch, when the child has ended; then process.exit(0).
ChildExits ==
  /\ ui.app = "cli" /\ ui.pc = "child"
  /\ \E code \in ChildCodes :
       /\ ui' = [ ui EXCEPT !.pc = "exited", !.exitCode = 0 ]
       /\ last' = ChildExit(code)
  /\ files' = files

\* configure: up / 'k' and down / 'j'
ConfigureMove ==
  /\ ui.app = "cli" /\ ui.pc = "configure"
  /\ \E dir \in { "up", "down" } :
       LET totalItems == Len(KNOWN_PROVIDERS) + 1
       IN  ui' = [ ui EXCEPT !.cfgSelected =
                     IF dir = "up" THEN StepUp(ui.cfgSelected, totalItems)
                     ELSE StepDown(ui.cfgSelected, totalItems) ]
  /\ files' = files /\ last' = Idle

\* configure: Enter opens the add list or edits the selected provider.
ConfigureEnter ==
  /\ ui.app = "cli" /\ ui.pc = "configure"
  /\ ui.cfgSelected <= MaxProvider
  /\ ui' = IF ui.cfgSelected = 0
             THEN [ ui EXCEPT !.pc = "addNew", !.addSelected = 0, !.raw = TRUE ]
             ELSE configureProvider(ui, KNOWN_PROVIDERS[ui.cfgSelected], "edit",
                                    "configure")
  /\ files' = files /\ last' = Idle

\* configure: Escape returns to the main menu.
ConfigureEscape ==
  /\ ui.app = "cli" /\ ui.pc = "configure"
  /\ ui' = [ ui EXCEPT !.pc = "main", !.raw = TRUE, !.cfgSelected = 0 ]
  /\ files' = files /\ last' = Idle

\* addNewProfileFlow: up / 'k' and down / 'j'
AddNewMove ==
  /\ ui.app = "cli" /\ ui.pc = "addNew"
  /\ \E dir \in { "up", "down" } :
       LET totalItems == Len(KNOWN_PROVIDERS) + 1
       IN  ui' = [ ui EXCEPT !.addSelected =
                     IF dir = "up" THEN StepUp(ui.addSelected, totalItems)
                     ELSE StepDown(ui.addSelected, totalItems) ]
  /\ files' = files /\ last' = Idle

\* addNewProfileFlow: Enter starts addCustomProfile or adds a profile of
\* the selected provider.
AddNewEnter ==
  /\ ui.app = "cli" /\ ui.pc = "addNew"
  /\ ui.addSelected <= MaxProvider
  /\ ui' = IF ui.addSelected = 0
             THEN prompt([ ui EXCEPT !.from = "addNew", !.cust = NoCust ], "custName")
             ELSE configureProvider(ui, KNOWN_PROVIDERS[ui.addSelected], "add",
                                    "addNew")
  /\ files' = files /\ last' = Idle

\* addNewProfileFlow: Escape returns to configure.
AddNewEscape ==
  /\ ui.app = "cli" /\ ui.pc = "addNew"
  /\ ui' = [ ui EXCEPT !.pc = "configure", !.raw = TRUE, !.addSelected = 0 ]
  /\ files' = files /\ last' = Idle

\* setupStdin's keypress handler with a pending prompt: a character.
PromptType ==
  /\ ui.app = "cli" /\ ui.pc \in PromptPcs /\ ui.hooked
  /\ Len(ui.inputBuffer) < MaxTyped
  /\ \E c \in Typable(ui.pc) :
       ui' = [ ui EXCEPT !.inputBuffer = Append(ui.inputBuffer, c) ]
  /\ files' = files /\ last' = Idle

\* setupStdin's keypress handler with a pending prompt: backspace / delete.
PromptBackspace ==
  /\ ui.app = "cli" /\ ui.pc \in PromptPcs /\ ui.hooked
  /\ ui' = [ ui EXCEPT !.inputBuffer = DropLast(ui.inputBuffer) ]
  /\ files' = files /\ last' = Idle

\* setupStdin's keypress handler with a pending prompt: Enter resolves the
\* prompt with the buffer, and the awaiting code runs to its next wait.
PromptReturn ==
  /\ ui.app = "cli" /\ ui.pc \in PromptPcs /\ ui.hooked
  /\ Len(loadProfiles(ResumeFiles(ui, files, ui.inputBuffer))) <= MaxProfiles
  /\ ui' = Resume(ui, files, ui.inputBuffer)
  /\ files' = ResumeFiles(ui, files, ui.inputBuffer)
  /\ last' = Idle

\* setupStdin's keypress handler with a pending prompt: Escape resolves the
\* prompt with the empty string.
PromptEscape ==
  /\ ui.app = "cli" /\ ui.pc \in PromptPcs /\ ui.hooked
  /\ Len(loadProfiles(ResumeFiles(ui, files, <<>>))) <= MaxProfiles
  /\ ui' = Resume(ui, files, <<>>)
  /\ files' = ResumeFiles(ui, files, <<>>)
  /\ last' = Idle

\* configureProvider, step 2: up / 'k' and down / 'j' over the two methods.
AuthMove ==
  /\ ui.app = "cli" /\ ui.pc = "auth"
  /\ \E dir \in { "up", "down" } :
       ui' = [ ui EXCEPT !.flow.authMethodSelected =
                 IF dir = "up" THEN StepUp(ui.flow.authMethodSelected, 2)
                 ELSE StepDown(ui.flow.authMethodSelected, 2) ]
  /\ files' = files /\ last' = Idle

\* configureProvider, step 2: Enter chooses the method and leaves raw mode.
\* The API key goes on to the token prompt; OAuth first blocks in execSync
\* on the command that opens the provider's page (the list is shown only
\* for a provider that has one).
AuthEnter ==
  /\ ui.app = "cli" /\ ui.pc = "auth"
  /\ ui' = IF ui.flow.authMethodSelected = 1
             THEN [ ui EXCEPT !.pc = "open", !.raw = FALSE ]
             ELSE prompt(ui, "token")
  /\ files' = files /\ last' = Idle

\* configureProvider, step 2: execSync returns, or throws into the catch,
\* and the token prompt opens.
OpenEnds ==
  /\ ui.app = "cli" /\ ui.pc = "open"
  /\ ui' = prompt(ui, "token")
  /\ files' = files /\ last' = Idle

\* configureProvider, step 2: Escape cancels the configuration.
AuthEscape ==
  /\ ui.app = "cli" /\ ui.pc = "auth"
  /\ ui' = Sleep(ui, "cancelled")
  /\ files' = files /\ last' = Idle

\* The pause after a message ends and the flow returns to its caller.
SleepEnds ==
  /\ ui.app = "cli" /\ ui.pc = "sleep"
  /\ ui' = ReturnToCaller(ui)
  /\ files' = files /\ last' = Idle

\* The key loops of the readline program.
KeyLoops == { "main", "switch", "configure", "addNew", "auth" }

\* The prompts at which Ctrl-C is drawn: the one whose answer is only shown.
CtrlCPrompts == { "custAuthInstr" }

\* A key event that changed nothing.
Ignored(key) == [ op |-> "ignored", key |-> key ]

\* Ctrl-C.  In raw mode the terminal delivers it as a keypress whose
\* character is ETX (key.ctrl set, key.name 'c'), so no test of
\* `key.char === 'c'` matches it: the key loops pass it by, a one-key view
\* takes it for its key, and a pending prompt appends it to the buffer.
\* Out of raw mode (the pause after a message, after main rejected, or
\* while execSync waits for osascript or for open, which the signal ends)
\* the terminal raises SIGINT and the handler installed at start-up exits.
CliCtrlC ==
  /\ ui.app = "cli" /\ ui.pc \notin { "child", "exited" }
  /\ ui.pc \in PromptPcs /\ ui.hooked =>
       ui.pc \in CtrlCPrompts /\ Len(ui.inputBuffer) < MaxTyped
  /\ ui' = CASE ui.pc \in { "sleep", "rejected", "osascript", "open" } -> onSigint(ui)
             [] ui.pc \in { "list", "current", "export" } ->
                  [ ui EXCEPT !.pc = "main", !.raw = TRUE ]
             [] ui.pc \in PromptPcs /\ ui.hooked ->
                  [ ui EXCEPT !.inputBuffer = Append(ui.inputBuffer, ETX) ]
             [] OTHER -> ui
  /\ last' = IF ui.pc \in KeyLoops \/ (ui.pc \in PromptPcs /\ ~ui.hooked)
               THEN Ignored("ctrl-c") ELSE Idle
  /\ files' = files

\* 'q' in a key loop below the main menu: no branch of the loop tests it.
SubViewQ ==
  /\ ui.app = "cli" /\ ui.pc \in KeyLoops \ { "main" }
  /\ ui' = ui
  /\ last' = Ignored("q")
  /\ files' = files

(***************************************************************************)
(* The Ink application (cli.tsx, ui/*.tsx).  Every mounted component's     *)
(* useInput handler receives every key.  A handler reads the state of the  *)
(* render it was created in (s) and queues updates, which are applied to   *)
(* the state being built (w); s and w are records [ui, files].             *)
(* profileVersion, which only forces a render, is left out.                *)
(***************************************************************************)
menuItems == << "switch", "configure", "list" >>

\* The fields of ProfileEditorView and of AddProviderForm, in order.
EditorFields == << "profileName", "baseUrl", "model", "token" >>
FormFields == << "providerName", "profileName", "baseUrl", "model", "token",
                 "authUrl", "authInstructions" >>

NoForm == [ activeIndex |-> 0, error |-> "none", values |-> <<>> ]
CfgStart == [ selected |-> 0, confirmDelete |-> NotFound ]
SwStart == [ selected |-> 0 ]

\* The application after render(<App />).
InkStart ==
  [ app |-> "ink", phase |-> "running", raw |-> TRUE, paused |-> FALSE,
    children |-> 0, viewStack |-> << "main" >>,
    menuIndex |-> 0, selectedProfile |-> NotFound,
    addingCustomProvider |-> FALSE, escExitArmed |-> FALSE,
    lastSwitchedProfile |-> NotFound, profileToRun |-> NotFound,
    notice |-> "none", cfg |-> CfgStart, sw |-> SwStart, form |-> NoForm,
    exitCode |-> Null ]

\* const view = viewStack[viewStack.length - 1] || 'main'
View(u) == IF u.viewStack = <<>> THEN "main" ELSE u.viewStack[Len(u.viewStack)]

\* What App renders: the editor, the add-provider form, or the view.
Shown(u) ==
  IF u.phase # "running" THEN "nothing"
  ELSE IF u.selectedProfile # NotFound THEN "editor"
  ELSE IF u.addingCustomProvider THEN "form"
  ELSE View(u)

\* App.pushView / App.popView (functional updates of the stack)
pushView(w, nextView) == [ w EXCEPT !.ui.viewStack = Append(@, nextView) ]
popView(w) ==
  [ w EXCEPT !.ui.viewStack = IF Len(@) > 1 THEN SubSeq(@, 1, Len(@) - 1) ELSE @ ]

\* process.exit(0)
Exit(w) == [ w EXCEPT !.ui.phase = "exited", !.ui.raw = FALSE, !.ui.exitCode = 0 ]

\* App's useInput handler.
AppInput(w, s, k) ==
  LET view == View(s.ui) IN
  IF k.kind = "ctrl-c" THEN Exit(w)
  ELSE IF IsChar(k, "q") THEN
    IF view = "main" THEN Exit(w)
    ELSE [ popView(w) EXCEPT !.ui.selectedProfile = NotFound ]
  ELSE IF view = "main" /\ (IsChar(k, "j") \/ k.kind = "down") THEN
    [ w EXCEPT !.ui.menuIndex = (s.ui.menuIndex + 1) % Len(menuItems) ]
  ELSE IF view = "main" /\ (IsChar(k, "k") \/ k.kind = "up") THEN
    [ w EXCEPT !.ui.menuIndex = (s.ui.menuIndex - 1 + Len(menuItems)) % Len(menuItems) ]
  ELSE IF view = "main" /\ (k.kind = "return" \/ IsChar(k, " ")) THEN
    pushView(w, menuItems[s.ui.menuIndex + 1])
  ELSE IF k.kind = "escape" THEN
    IF view = "main"
      THEN IF w.ui.escExitArmed THEN Exit(w)
           ELSE [ w EXCEPT !.ui.escExitArmed = TRUE ]
      ELSE [ popView(w) EXCEPT !.ui.selectedProfile = NotFound ]
  ELSE w

\* Menu's useInput handler (onSelect is setMenuIndex).
MenuInput(w, s, k) ==
  IF View(s.ui) # "main" THEN w
  ELSE IF IsChar(k, "j") \/ k.kind = "down" THEN
    [ w EXCEPT !.ui.menuIndex = (s.ui.menuIndex + 1) % Len(menuItems) ]
  ELSE IF IsChar(k, "k") \/ k.kind = "up" THEN
    [ w EXCEPT !.ui.menuIndex = (s.ui.menuIndex - 1 + Len(menuItems)) % Len(menuItems) ]
  ELSE w

\* App.handleSwitch
handleSwitch(w, profile) ==
  LET needsToken == /\ profile.provider # sClaude
                    /\ EnvGet(profile.env, "ANTHROPIC_AUTH_TOKEN") = <<>>
  IN  IF needsToken THEN [ w EXCEPT !.ui.notice = "needsToken" ]
      ELSE [ w EXCEPT !.ui.lastSwitchedProfile = profile.name,
                      !.ui.profileToRun = profile,
                      !.ui.phase = "child", !.ui.raw = FALSE,
                      !.ui.paused = TRUE, !.ui.children = @ + 1 ]

\* SwitchView's onCancel as App passes it.
switchCancel(w) == [ popView(w) EXCEPT !.ui.selectedProfile = NotFound ]

\* SwitchView's handler without the test of profiles.length on Enter.
SwitchViewInputUnguarded(w, s, k) ==
  LET profiles == loadProfiles(s.files)
      selected == s.ui.sw.selected
  IN  IF k.kind = "escape" THEN switchCancel(switchCancel(w))
      ELSE IF IsChar(k, "q") THEN switchCancel(w)
      ELSE IF IsChar(k, "j") \/ k.kind = "down" THEN
        [ w EXCEPT !.ui.sw.selected = StepDown(selected, Len(profiles)) ]
      ELSE IF IsChar(k, "k") \/ k.kind = "up" THEN
        [ w EXCEPT !.ui.sw.selected = StepUp(selected, Len(profiles)) ]
      ELSE IF k.kind = "return" THEN
        IF Len(profiles) > 0 THEN handleSwitch(w, profiles[selected + 1])
        ELSE [ w EXCEPT !.ui.phase = "child", !.ui.raw = FALSE,
                        !.ui.paused = TRUE, !.ui.children = @ + 1 ]
      ELSE w

\* SwitchView's useInput handler; Escape also reaches its stdin listener.
SwitchViewInput(w, s, k) ==
  LET profiles == loadProfiles(s.files)
      selected == s.ui.sw.selected
  IN  IF k.kind = "escape" THEN switchCancel(switchCancel(w))
      ELSE IF IsChar(k, "q") THEN switchCancel(w)
      ELSE IF IsChar(k, "j") \/ k.kind = "down" THEN
        [ w EXCEPT !.ui.sw.selected = StepDown(selected, Len(profiles)) ]
      ELSE IF IsChar(k, "k") \/ k.kind = "up" THEN
        [ w EXCEPT !.ui.sw.selected = StepUp(selected, Len(profiles)) ]
      ELSE IF k.kind = "return" /\ Len(profiles) > 0 THEN
        handleSwitch(w, profiles[selected + 1])
      ELSE w

\* handleRemoveProvider without the test of the built-in provider.
handleRemoveAnyProvider(w, providerId) ==
  [ w EXCEPT !.files = removeProviderProfiles(@, providerId) ]

\* App.handleRemoveProvider
handleRemoveProvider(w, providerId) ==
  IF providerId = sClaude THEN w
  ELSE [ w EXCEPT !.files = removeProviderProfiles(@, providerId) ]

\* ConfigureView's useInput handler.
ConfigureViewInput(w, s, k) ==
  LET profiles      == loadProfiles(s.files)
      totalItems    == Len(profiles) + 1
      selected      == s.ui.cfg.selected
      confirmDelete == s.ui.cfg.confirmDelete
  IN  IF confirmDelete # NotFound THEN
        IF k.kind = "char" /\ k.ch \in { "y", "Y" } THEN
          [ handleRemoveProvider(w, confirmDelete.provider)
              EXCEPT !.ui.cfg = [ selected |-> 0, confirmDelete |-> NotFound ] ]
        ELSE IF (k.kind = "char" /\ k.ch \in { "n", "N" }) \/ k.kind = "escape" THEN
          [ w EXCEPT !.ui.cfg.confirmDelete = NotFound ]
        ELSE w
      ELSE IF IsChar(k, "j") \/ k.kind = "down" THEN
        [ w EXCEPT !.ui.cfg.selected = StepDown(selected, totalItems) ]
      ELSE IF IsChar(k, "k") \/ k.kind = "up" THEN
        [ w EXCEPT !.ui.cfg.selected = StepUp(selected, totalItems) ]
      ELSE IF k.kind = "return" THEN
        IF selected = 0 THEN [ w EXCEPT !.ui.addingCustomProvider = TRUE ]
        ELSE [ w EXCEPT !.ui.selectedProfile = profiles[selected] ]
      ELSE IF IsChar(k, "d") THEN
        IF selected > 0 /\ profiles[selected].provider # sAnthropic
          THEN [ w EXCEPT !.ui.cfg.confirmDelete = profiles[selected] ]
          ELSE w
      ELSE w

\* ProfileEditorView: the values the form starts from.
existingName(profile) ==
  OrElse(profile.name, OrElse(EnvGet(profile.env, "PROVIDER_NAME"), profile.provider))
existingToken(profile) == EnvGet(profile.env, "ANTHROPIC_AUTH_TOKEN")
existingBaseUrl(profile) == EnvGet(profile.env, "ANTHROPIC_BASE_URL")
existingModel(profile) == OrElse(EnvGet(profile.env, "ANTHROPIC_MODEL"), sModel)

EditorStart(profile) ==
  [ activeIndex |-> 0, error |-> "none",
    values |-> [ profileName |-> existingName(profile),
                 baseUrl     |-> existingBaseUrl(profile),
                 model       |-> existingModel(profile),
                 token       |-> existingToken(profile) ] ]

FormStart ==
  [ activeIndex |-> 0, error |-> "none",
    values |-> [ providerName |-> <<>>, profileName |-> <<>>, baseUrl |-> <<>>,
                 model |-> <<>>, token |-> <<>>, authUrl |-> <<>>,
                 authInstructions |-> <<>> ] ]

\* App.handleOnboardingComplete(data), data not null.
handleOnboardingComplete(w, s, data) ==
  LET selectedProfile == s.ui.selectedProfile
      profile == [ name     |-> data.profileName,
                   provider |-> selectedProfile.provider,
                   env      |-> SetEnv(selectedProfile.env,
                                  [ ANTHROPIC_AUTH_TOKEN |-> data.token,
                                    ANTHROPIC_BASE_URL   |-> data.baseUrl,
                                    ANTHROPIC_MODEL      |-> data.model ]),
                   fileKey  |-> selectedProfile.fileKey ]
      saved == IF selectedProfile # NotFound
                 THEN [ w EXCEPT !.files = saveProfile(@, profile) ]
                 ELSE w
  IN  [ saved EXCEPT !.ui.selectedProfile = NotFound,
                     !.ui.viewStack = << "main", "list" >>,
                     !.ui.raw = TRUE ]

\* App.handleCustomProviderComplete(data), data not null.
handleCustomProviderComplete(w, data) ==
  LET profile == [ name     |-> data.profileName,
                   provider |-> data.providerId,
                   env      |-> [ ANTHROPIC_AUTH_TOKEN       |-> data.token,
                                  ANTHROPIC_BASE_URL         |-> data.baseUrl,
                                  ANTHROPIC_MODEL            |-> data.defaultModel,
                                  PROVIDER_NAME              |-> data.providerName,
                                  PROVIDER_AUTH_URL          |-> data.authUrl,
                                  PROVIDER_AUTH_INSTRUCTIONS |-> data.authInstructions ] ]
  IN  [ w EXCEPT !.files = saveProfile(@, profile),
                 !.ui.addingCustomProvider = FALSE,
                 !.ui.viewStack = << "main", "list" >>,
                 !.ui.raw = TRUE ]

\* The key handling that both forms share: moving between the fields and
\* editing the active one.
FieldInput(w, s, k, fields) ==
  LET activeIndex == s.ui.form.activeIndex
      fieldKey    == fields[activeIndex + 1]
  IN  IF k.kind \in { "tab", "down" } THEN
        [ w EXCEPT !.ui.form.activeIndex = (activeIndex + 1) % Len(fields) ]
      ELSE IF k.kind = "up" THEN
        [ w EXCEPT !.ui.form.activeIndex = (activeIndex - 1 + Len(fields)) % Len(fields) ]
      ELSE IF k.kind = "backspace" THEN
        [ w EXCEPT !.ui.form.values[fieldKey] = DropLast(@) ]
      ELSE IF k.kind = "char" THEN
        [ w EXCEPT !.ui.form.values[fieldKey] = Append(@, k.ch),
                   !.ui.form.error = "none" ]
      ELSE w

\* ProfileEditorView's useInput handler.
ProfileEditorViewInput(w, s, k) ==
  LET profile == s.ui.selectedProfile
      values  == s.ui.form.values
  IN  IF k.kind = "escape" THEN [ w EXCEPT !.ui.selectedProfile = NotFound ]
      ELSE IF k.kind = "return" THEN
        IF trim(values.token) = <<>>
          THEN [ w EXCEPT !.ui.form.error = "Token is required" ]
          ELSE handleOnboardingComplete(w, s,
                 [ profileName |-> OrElse(trim(values.profileName), existingName(profile)),
                   baseUrl     |-> OrElse(trim(values.baseUrl), existingBaseUrl(profile)),
                   model       |-> OrElse(trim(values.model), existingModel(profile)),
                   token       |-> trim(values.token) ])
      ELSE FieldInput(w, s, k, EditorFields)

\* AddProviderForm's useInput handler.
AddProviderFormInput(w, s, k) ==
  LET values       == s.ui.form.values
      providerName == trim(values.providerName)
      baseUrl      == trim(values.baseUrl)
      token        == trim(values.token)
  IN  IF k.kind = "escape" THEN [ w EXCEPT !.ui.addingCustomProvider = FALSE ]
      ELSE IF k.kind = "return" THEN
        IF providerName = <<>> \/ baseUrl = <<>> \/ token = <<>>
          THEN [ w EXCEPT !.ui.form.error =
                   "Provider name, Base URL, and Token are required" ]
          ELSE handleCustomProviderComplete(w,
                 [ profileName      |-> OrElse(trim(values.profileName), providerName),
                   providerId       |-> slugify(providerName),
                   providerName     |-> providerName,
                   baseUrl          |-> baseUrl,
                   defaultModel     |-> OrElse(trim(values.model), sModel),
                   authUrl          |-> trim(values.authUrl),
                   authInstructions |-> trim(values.authInstructions),
                   token            |-> token ])
      ELSE FieldInput(w, s, k, FormFields)

\* The handler of the component that App shows.
ChildInput(w, s, k) ==
  CASE Shown(s.ui) = "editor"    -> ProfileEditorViewInput(w, s, k)
    [] Shown(s.ui) = "form"      -> AddProviderFormInput(w, s, k)
    [] Shown(s.ui) = "main"      -> MenuInput(w, s, k)
    [] Shown(s.ui) = "switch"    -> SwitchViewInput(w, s, k)
    [] Shown(s.ui) = "configure" -> ConfigureViewInput(w, s, k)
    [] OTHER -> w

\* The state of the components after the render that follows the updates:
\* a component that was not shown before starts from its initial state, and
\* one that is no longer shown has none.
Rendered(w, s) ==
  LET before == Shown(s.ui)
      after  == Shown(w.ui)
  IN  [ w EXCEPT
          !.ui.form = IF after = "editor" /\ before # "editor"
                        THEN EditorStart(w.ui.selectedProfile)
                      ELSE IF after = "form" /\ before # "form" THEN FormStart
                      ELSE IF after \in { "editor", "form" } THEN @
                      ELSE NoForm,
          !.ui.cfg = IF after = "configure" /\ before = "configure" THEN @ ELSE CfgStart,
          !.ui.sw = IF after = "switch" /\ before = "switch" THEN @ ELSE SwStart ]

\* The handlers named in hs, run in that order on the updates so far;
\* process.exit ends the event.
RECURSIVE RunHandlers(_, _, _, _)
RunHandlers(w, s, k, hs) ==
  IF hs = <<>> \/ w.ui.phase = "exited" THEN w
  ELSE RunHandlers(IF Head(hs) = "app" THEN AppInput(w, s, k) ELSE ChildInput(w, s, k),
                   s, k, Tail(hs))

\* One key event.  The handlers run in the order in which their listeners
\* were last subscribed, which depends on which components rendered last:
\* both orders are taken.
Press(s, k, order) == Rendered(RunHandlers(s, s, k, order), s)

Orders == { << "app", "child" >>, << "child", "app" >> }

\* The characters typed into a field of a form that holds value: those of
\* the field while it is short, and a blank after the first character of
\* the base URL, which the forms trim away when they submit.
FieldChars(field, value) ==
  IF Len(value) < MaxTyped THEN Typable(field)
  ELSE IF field = "baseUrl" /\ Len(value) < MaxFieldTyped THEN { " " }
  ELSE {}

\* The character keys drawn: what is typed into the active field of a form
\* (plus 'q' in the editor), and the command characters of the views.
InkChars(u) ==
  CASE Shown(u) = "editor" ->
         FieldChars(EditorFields[u.form.activeIndex + 1],
                    u.form.values[EditorFields[u.form.activeIndex + 1]])
         \cup { "q" }
    [] Shown(u) = "form" ->
         FieldChars(FormFields[u.form.activeIndex + 1],
                    u.form.values[FormFields[u.form.activeIndex + 1]])
    [] OTHER -> { "j", "k", "q", "d", "y", "n", " " }

\* The key k is pressed: the handlers run and the application renders.  The
\* add-provider form is opened only while one more profile fits the bound.
Pressed(k) ==
  \E order \in Orders :
    LET s == [ ui |-> [ ui EXCEPT !.notice = "none" ], files |-> files ]
    IN  \E w \in { Press(s, k, order) } :
          /\ ui' = w.ui
          /\ files' = w.files
          /\ Len(loadProfiles(files')) <= MaxProfiles
          /\ (ui'.addingCustomProvider /\ ~ui.addingCustomProvider) =>
               Len(loadProfiles(files)) < MaxProfiles

\* handleRemoveProvider returned without removing: 'y' answers the question
\* ConfigureView asks about a profile of the built-in provider.
Refused(providerId) == [ op |-> "refused", provider |-> providerId ]

RemoveRefused(c) ==
  /\ c \in { "y", "Y" }
  /\ Shown(ui) = "configure"
  /\ ui.cfg.confirmDelete # NotFound
  /\ ui.cfg.confirmDelete.provider = sClaude

\* Ctrl-C
InkCtrlC ==
  /\ ui.app = "ink" /\ ui.phase = "running"
  /\ Pressed(Key("ctrl-c"))
  /\ last' = Idle

\* Escape
InkEscape ==
  /\ ui.app = "ink" /\ ui.phase = "running"
  /\ Pressed(Key("escape"))
  /\ last' = Idle

\* Enter
InkReturn ==
  /\ ui.app = "ink" /\ ui.phase = "running"
  /\ Pressed(Key("return"))
  /\ last' = Idle

\* The up and down arrows
InkArrow ==
  /\ ui.app = "ink" /\ ui.phase = "running"
  /\ \E kind \in { "up", "down" } : Pressed(Key(kind))
  /\ last' = Idle

\* Tab
InkTab ==
  /\ ui.app = "ink" /\ ui.phase = "running"
  /\ Pressed(Key("tab"))
  /\ last' = Idle

\* Backspace / delete, pressed in the fields that are typed into.
InkBackspace ==
  /\ ui.app = "ink" /\ ui.phase = "running"
  /\ Shown(ui) \in { "editor", "form" } =>
       Typable((IF Shown(ui) = "editor" THEN EditorFields ELSE FormFields)
                 [ui.form.activeIndex + 1]) # {}
  /\ Pressed(Key("backspace"))
  /\ last' = Idle

\* A character key
InkChar ==
  /\ ui.app = "ink" /\ ui.phase = "running"
  /\ \E c \in InkChars(ui) :
       /\ Pressed(CharKey(c))
       /\ last' = IF RemoveRefused(c) THEN Refused(sClaude) ELSE Idle

\* The 800 ms timer set by Escape at the main view disarms the exit.  exit()
\* does not clear it, so it also fires while the launched child runs.
InkEscTimer ==
  /\ ui.app = "ink" /\ ui.phase \in { "running", "child" } /\ ui.escExitArmed
  /\ ui' = [ ui EXCEPT !.escExitArmed = FALSE ]
  /\ files' = files /\ last' = Idle

\* runProfileInCurrentTerminal: the child exits, the process exits with it.
InkChildExits ==
  /\ ui.app = "ink" /\ ui.phase = "child"
  /\ \E code \in ChildCodes :
       /\ ui' = [ ui EXCEPT !.phase = "exited",
                            !.exitCode = IF code = Null THEN 0 ELSE code ]
       /\ last' = ChildExit(code)
  /\ files' = files

(***************************************************************************)
(* The front-end specification: either program, started with no profile    *)
(* directory, an empty one, or one that earlier runs and an editor left.   *)
(***************************************************************************)
\* A profile of the built-in provider.
ClaudeDir ==
  WriteFile(EmptyDir, <<"a">> \o DotJson,
            Json([ name |-> <<"a">>, provider |-> sClaude,
                   env |-> [ ANTHROPIC_AUTH_TOKEN |-> <<"a">> ] ]))

\* The same directory with a profile of another provider whose token is
\* not filled in yet.
UiSeedDir ==
  WriteFile(ClaudeDir, <<"b">> \o DotJson,
            Json([ name |-> <<"b">>, provider |-> <<"b">>, env |-> NoEnv ]))

UiInit ==
  /\ last = Idle
  /\ files \in { MissingDir, EmptyDir, UiSeedDir }
  /\ ui \in { CliStart, InkStart }

UiNext ==
  \/ MainEscape
  \/ MainEscTimer
  \/ MainQuit
  \/ MainMove
  \/ MainEnter
  \/ SwitchMove
  \/ SwitchToggle
  \/ SwitchEnter
  \/ OsascriptEnds
  \/ SwitchEscape
  \/ AnyKeyBack
  \/ ChildExits
  \/ ConfigureMove
  \/ ConfigureEnter
  \/ ConfigureEscape
  \/ AddNewMove
  \/ AddNewEnter
  \/ AddNewEscape
  \/ PromptType
  \/ PromptBackspace
  \/ PromptReturn
  \/ PromptEscape
  \/ AuthMove
  \/ AuthEnter
  \/ OpenEnds
  \/ AuthEscape
  \/ SleepEnds
  \/ CliCtrlC
  \/ SubViewQ
  \/ InkCtrlC
  \/ InkEscape
  \/ InkReturn
  \/ InkArrow
  \/ InkTab
  \/ InkBackspace
  \/ InkChar
  \/ InkEscTimer
  \/ InkChildExits

UiSpec == UiInit /\ [][UiNext]_vars

(***************************************************************************)
(* Claims about the editor flows.  A step of a flow is named by the action *)
(* that takes it and by the state it is taken in.                          *)
(***************************************************************************)
\* The pending prompt at pc is answered with value (Enter with that buffer,
\* or Escape for the empty answer).
CliAnswers(pc, value) ==
  /\ ui.app = "cli" /\ ui.pc = pc
  /\ \/ PromptReturn /\ ui.inputBuffer = value
     \/ PromptEscape /\ value = <<>>

\* The last prompt of configureProvider is answered: the profile is saved.
CliSaves(mode) ==
  /\ ui.app = "cli" /\ ui.pc = "timeout" /\ ui.flow.mode = mode
  /\ PromptReturn \/ PromptEscape

\* Enter in the shown form of the Ink application.
InkSubmits(form) == ui.app = "ink" /\ Shown(ui) = form /\ InkReturn

\* Every file of the directory is still there, unchanged.
NothingOverwritten ==
  \A fn \in DOMAIN files : fn \in DOMAIN files' /\ files'[fn] = files[fn]

\* After the step no profile stored under another file key has this name.
NameOnlyIn(name, fileKey) ==
  \A i \in 1..Len(loadProfiles(files')) :
    LET p == loadProfiles(files')[i]
    IN  p.fileKey # fileKey => toLowerCase(p.name) # toLowerCase(name)

\* A name that is taken, or whose file key is taken, in the directory.
Collides(name) ==
  \/ getProfileByName(files, name) # NotFound
  \/ getProfileByFileKey(files, toProfileFileKey(name)) # NotFound

\* C8: adding a profile never overwrites an existing profile file (a name
\* that is in use, or whose file key is in use, is asked for again), and an
\* edit saves a name that only the edited profile's file carries.
C8_EditorRejectsCollisions ==
  [][ /\ (CliSaves("add") \/ InkSubmits("form")) => NothingOverwritten
      /\ \A value \in { <<>> } \cup (IF ui.app = "cli" THEN { ui.inputBuffer } ELSE {}) :
           ( /\ CliAnswers("name", value)
             /\ ui.flow.mode = "add"
             /\ Collides(OrElse(trim(value), ui.flow.provider.name)) )
           => ui'.pc = "name" /\ files' = files
      /\ CliSaves("edit") => NameOnlyIn(ui.flow.profileName, ui.flow.profileFileKey)
      /\ (InkSubmits("editor") /\ files' # files) =>
           NameOnlyIn(OrElse(trim(ui.form.values.profileName),
                             existingName(ui.selectedProfile)),
                      ui.selectedProfile.fileKey)
    ]_vars

\* The provider being configured already has a saved profile.
CliHasProfile ==
  \E i \in 1..Len(loadProfiles(files)) :
    loadProfiles(files)[i].provider = ui.flow.provider.id

\* C9: an edit of an existing profile writes that profile's file and adds
\* no file, whatever name the edit gives it.
C9_EditKeepsFileKey ==
  [][ /\ (CliSaves("edit") /\ CliHasProfile) => DOMAIN files' = DOMAIN files
      /\ InkSubmits("editor") =>
           /\ DOMAIN files' = DOMAIN files
           /\ \A fn \in DOMAIN files :
                fn # ui.selectedProfile.fileKey \o DotJson => files'[fn] = files[fn]
    ]_vars

\* The token prompt is answered with nothing but blanks.
CliEmptyToken ==
  \E value \in { <<>> } \cup (IF ui.app = "cli" THEN { ui.inputBuffer } ELSE {}) :
    CliAnswers("token", value) /\ trim(value) = <<>>

\* The pause after "No token entered" ends.
CliNoTokenReturn ==
  /\ ui.app = "cli" /\ ui.pc = "sleep" /\ ui.notice = "noToken"
  /\ SleepEnds

\* Enter in the profile editor with a token field of nothing but blanks.
InkEmptyToken ==
  /\ InkSubmits("editor")
  /\ trim(ui.form.values.token) = <<>>

\* C10 as stated: an empty token writes no file and control is back on the
\* configure screen, its selection unchanged.
C10_EmptyTokenReturnsToConfigure ==
  [][ /\ CliEmptyToken => files' = files
      /\ CliNoTokenReturn =>
           /\ files' = files
           /\ ui'.pc = "configure"
           /\ ui'.cfgSelected = ui.cfgSelected
      /\ InkEmptyToken => files' = files /\ Shown(ui') = "configure"
    ]_vars

(***************************************************************************)
(* Claims about the keys Escape, Ctrl-C and 'q'.                           *)
(***************************************************************************)
\* Escape at a text prompt of configureProvider, or at its auth method list.
CliEditorEscape ==
  /\ ui.app = "cli"
  /\ \/ ui.pc \in EditorPcs /\ PromptEscape
     \/ ui.pc = "auth" /\ AuthEscape

\* Escape while the Ink profile editor is shown.
InkEditorEscape == ui.app = "ink" /\ Shown(ui) = "editor" /\ InkEscape

\* C11: Escape at any prompt of the editor flow (name, base URL, auth
\* method, token, model, timeout) or in the editor form aborts the flow, no
\* profile file is written or modified, and the view the flow was opened
\* from is shown again.
C11_EscapeAbortsEditor ==
  [][ /\ CliEditorEscape =>
           /\ files' = files
           /\ ui'.pc = "sleep" /\ ui'.notice # "saved"
           /\ ui'.from = ui.from
      /\ InkEditorEscape =>
           /\ files' = files
           /\ Shown(ui') = View(ui)
    ]_vars

\* The env of the profile stored under fileKey after the step.
SavedEnv(fileKey) == files'[fileKey \o DotJson].data.env

\* The readline editor saves, every answer but the token having been left
\* empty: the name, the base URL, the model and now the timeout.
CliSavesDefaults ==
  /\ ui.app = "cli" /\ ui.pc = "timeout"
  /\ (PromptReturn /\ trim(ui.inputBuffer) = <<>>) \/ PromptEscape
  /\ ui.flow.profileName = ui.flow.provider.name
  /\ ui.flow.baseUrl = ui.flow.provider.baseUrl
  /\ ui.flow.model = ui.flow.provider.defaultModel

\* The Ink editor saves, every field but the token as the form opened with
\* it.
InkSavesDefaults ==
  /\ InkSubmits("editor")
  /\ trim(ui.form.values.token) # <<>>
  /\ \A f \in { "profileName", "baseUrl", "model" } :
       ui.form.values[f] = EditorStart(ui.selectedProfile).values[f]

\* C12: an editor flow completed with only a token supplied saves an env
\* with the provider's base URL and default model, API_TIMEOUT_MS
\* "3000000", the traffic flag "1", and the token as it was entered.
C12_DefaultsSaved ==
  [][ /\ CliSavesDefaults =>
           LET env == SavedEnv(ui.flow.profileFileKey)
           IN  /\ EnvGet(env, "ANTHROPIC_BASE_URL") = ui.flow.provider.baseUrl
               /\ EnvGet(env, "ANTHROPIC_MODEL") = ui.flow.provider.defaultModel
               /\ EnvGet(env, "API_TIMEOUT_MS") = sDefaultTimeout
               /\ EnvGet(env, "CLAUDE_CODE_DISABLE_NONESSENTIAL_TRAFFIC") = sFlagOn
               /\ EnvGet(env, "ANTHROPIC_AUTH_TOKEN") = ui.flow.authToken
      /\ InkSavesDefaults =>
           LET env == SavedEnv(ui.selectedProfile.fileKey)
           IN  /\ EnvGet(env, "ANTHROPIC_BASE_URL") = existingBaseUrl(ui.selectedProfile)
               /\ EnvGet(env, "ANTHROPIC_MODEL") = existingModel(ui.selectedProfile)
               /\ EnvGet(env, "API_TIMEOUT_MS") = sDefaultTimeout
               /\ EnvGet(env, "CLAUDE_CODE_DISABLE_NONESSENTIAL_TRAFFIC") = sFlagOn
               /\ EnvGet(env, "ANTHROPIC_AUTH_TOKEN") = ui.form.values.token
    ]_vars

\* Escape pressed while the Ink application shows one of the views.
InkViewEscape(views) == ui.app = "ink" /\ Shown(ui) \in views /\ InkEscape

\* The navigation stack without its top level.
Popped(stack) == SubSeq(stack, 1, Len(stack) - 1)

\* C13: at the root an Escape exits only if the exit was armed, the exit is
\* armed only by an Escape at the root and disarmed when the timer fires;
\* in a sub-view Escape goes back exactly one level.
C13_EscapeArmsThenExits ==
  [][ /\ ui.app = "cli" =>
           /\ (MainEscape /\ ui'.pc = "exited") => ui.escArmed
           /\ (MainEscape /\ ~ui.escArmed) => ui'.pc = "main" /\ ui'.escArmed
           /\ (ui'.escArmed /\ ~ui.escArmed) => MainEscape
           /\ MainEscTimer => ~ui'.escArmed
           /\ (SwitchEscape \/ ConfigureEscape) => ui'.pc = "main"
           /\ AddNewEscape => ui'.pc = "configure"
      /\ ui.app = "ink" =>
           /\ (InkEscape /\ ui'.phase = "exited") =>
                View(ui) = "main" /\ ui.escExitArmed
           /\ (InkViewEscape({ "main" }) /\ ~ui.escExitArmed) =>
                ui'.phase = "running" /\ ui'.escExitArmed
           /\ (ui'.escExitArmed /\ ~ui.escExitArmed) =>
                InkEscape /\ View(ui) = "main"
           /\ InkEscTimer => ~ui'.escExitArmed
           /\ InkViewEscape({ "switch", "configure", "list" }) =>
                ui'.viewStack = Popped(ui.viewStack)
    ]_vars

\* C14: Ctrl-C ends the program at once wherever the interactive loop is:
\* in a menu, in a sub-view, at a text prompt or in a form.
C14_CtrlCTerminates ==
  [][ /\ CliCtrlC => ui'.pc = "exited"
      /\ InkCtrlC => ui'.phase = "exited"
    ]_vars

\* 'q' pressed while the Ink application shows one of the views.
InkViewQ(views) ==
  /\ ui.app = "ink" /\ ui.phase = "running" /\ Shown(ui) \in views
  /\ Pressed(CharKey("q"))
  /\ last' = Idle

\* 'q' pressed in the readline program, in one of its views.
CliViewQ(views) ==
  /\ ui.app = "cli" /\ ui.pc \in views
  /\ MainQuit \/ SubViewQ \/ AnyKeyBack

\* C15: 'q' at the root menu exits; 'q' in the switch, configure and list
\* views goes back one level and the program keeps running.
C15_QuitOnlyAtRoot ==
  [][ /\ CliViewQ({ "main" }) => ui'.pc = "exited"
      /\ CliViewQ({ "switch", "configure", "list" }) => ui'.pc = "main"
      /\ InkViewQ({ "main" }) => ui'.phase = "exited"
      /\ InkViewQ({ "switch", "configure", "list" }) =>
           /\ ui'.phase = "running"
           /\ ui'.viewStack = Popped(ui.viewStack)
    ]_vars

\* What SwitchView renders under its title: the message or the list.
SwitchViewBody(profiles) == IF Len(profiles) = 0 THEN "noProfiles" ELSE "list"

\* The Ink switch view is shown and there is no profile.
InkEmptySwitch ==
  ui.app = "ink" /\ Shown(ui) = "switch" /\ Len(loadProfiles(files)) = 0

\* Enter on "Switch Profile" in the readline main menu, with no profile.
CliEmptySwitch ==
  /\ ui.app = "cli" /\ ui.pc = "main" /\ cliMenuItems[ui.selected + 1] = "switch"
  /\ Len(loadProfiles(files)) = 0
  /\ MainEnter

\* C16: with no profile the switch view shows the no-profiles message and
\* no key pressed in it launches a session or makes the program fail; the
\* readline program does not enter its selection loop at all.
C16_EmptySwitchLaunchesNothing ==
  [][ /\ InkEmptySwitch =>
           /\ SwitchViewBody(loadProfiles(files)) = "noProfiles"
           /\ ui'.phase \in { "running", "exited" }
           /\ ui'.profileToRun = NotFound
           /\ files' = files
      /\ CliEmptySwitch =>
           /\ ui'.pc = "main" /\ ui'.toRun = NotFound
           /\ files' = files
      /\ (ui.app = "cli" /\ ui'.pc = "switch") => Len(loadProfiles(files')) > 0
    ]_vars

\* In the Ink switch view with no profile a movement key has been handled.
C16_Witness == InkEmptySwitch /\ ui.sw.selected = NaN

\* handleSwitch's test: the profile is not the built-in one and has no token.
NeedsToken(profile) ==
  /\ profile.provider # sClaude
  /\ EnvGet(profile.env, "ANTHROPIC_AUTH_TOKEN") = <<>>

\* Enter in the readline switch view on a profile that needs a token.
CliSelectsTokenless ==
  /\ ui.app = "cli" /\ ui.pc = "switch"
  /\ NeedsToken(loadProfiles(files)[ui.swSelected + 1])
  /\ SwitchEnter

\* Enter in the Ink switch view on a profile that needs a token.
InkSelectsTokenless ==
  /\ ui.app = "ink" /\ Shown(ui) = "switch"
  /\ Len(loadProfiles(files)) > 0 /\ ui.sw.selected # NaN
  /\ NeedsToken(loadProfiles(files)[ui.sw.selected + 1])
  /\ InkReturn

\* C17: Enter in the switch view on a profile that needs a token and has
\* none launches nothing: the configure-first message is shown and the
\* program keeps running.
C17_TokenlessNeverLaunched ==
  [][ /\ CliSelectsTokenless =>
           /\ ui'.pc \notin { "child", "exited" }
           /\ ui'.toRun = NotFound
           /\ ui'.notice = "needsToken"
      /\ InkSelectsTokenless =>
           /\ ui'.phase = "running"
           /\ ui'.profileToRun = NotFound
           /\ ui'.notice = "needsToken"
    ]_vars

\* The child of runProfileInCurrentTerminal is running.
ChildRuns(u) ==
  \/ u.app = "cli" /\ u.pc = "child"
  \/ u.app = "ink" /\ u.phase = "child"

\* The program has ended.
Ended(u) ==
  \/ u.app = "cli" /\ u.pc = "exited"
  \/ u.app = "ink" /\ u.phase = "exited"

\* The step in which a downstream command is started: the child of the
\* current terminal, or the command of a new terminal window.
Spawn == ui'.children > ui.children

\* C18: a downstream command is started with the terminal out of raw mode
\* and stdin paused, by a program whose interface has ended and only waits
\* for the child, and it is the only one the run starts; while the child
\* runs no key is handled: the only steps are its exit, which ends the
\* program, and the pending Escape timer, which touches nothing but its own
\* flag.
C18_SpawnAfterRelease ==
  [][ /\ Spawn =>
           /\ ~ui'.raw
           /\ ui'.paused
           /\ ChildRuns(ui')
           /\ ui'.children <= 1
      /\ ChildRuns(ui) =>
           \/ Ended(ui')
           \/ /\ ui.app = "ink" /\ ui.escExitArmed
              /\ ui' = [ ui EXCEPT !.escExitArmed = FALSE ]
              /\ files' = files
      /\ Ended(ui) => ~ChildRuns(ui')
    ]_vars

\* C19: when the launched child ends, the program exits with the child's
\* exit code, and with 0 when the child has none.
C19_ExitsWithChildCode ==
  [][ (ChildRuns(ui) /\ Ended(ui')) =>
        /\ last'.op = "childExit"
        /\ ui'.exitCode = IF last'.code = Null THEN 0 ELSE last'.code
    ]_vars

\* The files that list as profiles of the built-in provider.
ClaudeFiles(d) ==
  { loadProfiles(d)[i].fileKey \o DotJson :
      i \in { j \in 1..Len(loadProfiles(d)) : loadProfiles(d)[j].provider = sClaude } }

\* C20: no key removes a file that lists as a profile of the provider
\* 'claude', and files are removed only by the answer 'y' to the question
\* about a profile of another provider.
C20_ClaudeNeverRemoved ==
  [][ /\ ClaudeFiles(files) \subseteq Entries(files')
      /\ Entries(files) \ Entries(files') # {} =>
           /\ ui.app = "ink" /\ Shown(ui) = "configure"
           /\ ui.cfg.confirmDelete # NotFound
           /\ ui.cfg.confirmDelete.provider # sClaude
    ]_vars

\* The removal of a profile of the built-in provider was asked for and
\* confirmed, and its file is there.
C20_Witness ==
  /\ last = Refused(sClaude)
  /\ ClaudeFiles(files) # {}

(***************************************************************************)
(* The provider-key readline program (src/cli.ts), the older version of    *)
(* the readline program: a profile is stored under its provider id, the    *)
(* configure list holds the catalog only, and choosing a profile prints    *)
(* the export command instead of launching a child.  Its catalog differs   *)
(* from KNOWN_PROVIDERS in the authUrl of MiniMax only, which is printed   *)
(* and opened, never stored.  ui.pc is the place where the program waits:  *)
(* a key loop ("main", "switch", "configure"), a one-key view ("list",     *)
(* "current", "export"), a text prompt (LegacyPrompts), the pause after a  *)
(* message ("sleep"), the command that opens the browser ("open"),         *)
(* "returned" (main returned and nothing reads keys),                      *)
(* "rejected" (an exception ended main) or "killed".                       *)
(***************************************************************************)
legacyMenuItems == << "switch", "configure", "list", "export", "current" >>

\* The prompts of configureProvider, in order.
LegacyPrompts == { "url", "authMethod", "token", "model", "timeout" }

\* The characters typed into a prompt of configureProvider.
LegacyTypable(pc) ==
  CASE pc = "url" -> { "a" }
    [] pc = "authMethod" -> { "2" }
    [] pc = "token" -> { "a", " " }
    [] pc = "timeout" -> { "9" }
    [] OTHER -> {}

\* The keys drawn for the provider-key program.
LegacyKeys ==
  { Key(kind) : kind \in { "return", "escape", "up", "down", "backspace", "ctrl-c" } }
  \cup { CharKey(c) : c \in { "j", "k", "q", " ", "a", "2", "9" } }

\* main after setupStdin(), the first draw and setRawMode(true).
LegacyStart ==
  [ app |-> "legacy", pc |-> "main", raw |-> TRUE, inputBuffer |-> <<>>,
    selected |-> 0, swSelected |-> 0, cfgSelected |-> 0, flow |-> NoFlow,
    notice |-> "none" ]

\* cli.ts saveProfile: the file is named after the provider, and the
\* directory is not created.
legacySaveProfile(d, p) ==
  IF ENOENT(d) THEN d ELSE WriteFile(d, p.provider \o DotJson, Stored(p))

\* The profile configureProvider saves: the one getProfile finds for the
\* provider id, or a new one, with the five variables set.
legacyProfile(u, d, timeoutInput) ==
  LET provider        == u.flow.provider
      existingProfile == getProfile(d, provider.id)
      profile == IF existingProfile # NotFound THEN existingProfile
                 ELSE [ name |-> provider.name, provider |-> provider.id,
                        env |-> NoEnv ]
  IN  [ name     |-> profile.name,
        provider |-> profile.provider,
        env      |-> SetEnv(profile.env,
                       [ ANTHROPIC_AUTH_TOKEN |-> trim(u.flow.authToken),
                         ANTHROPIC_BASE_URL   |-> u.flow.baseUrl,
                         ANTHROPIC_MODEL      |-> u.flow.model,
                         API_TIMEOUT_MS       |-> OrElse(trim(timeoutInput), sDefaultTimeout),
                         CLAUDE_CODE_DISABLE_NONESSENTIAL_TRAFFIC |-> sFlagOn ]) ]

\* configureProvider after the pending prompt resolved with value, up to
\* its next wait: the program and the directory.  The callback has turned
\* raw mode off; the next prompt turns it on again.
legacyConfigureProvider(u, d, value) ==
  LET provider == u.flow.provider
      v        == [ u EXCEPT !.raw = FALSE, !.inputBuffer = <<>> ]
  IN  CASE u.pc = "url" ->
             [ ui |-> prompt([ v EXCEPT !.flow.baseUrl =
                                 OrElse(trim(value), provider.baseUrl) ],
                             "authMethod"),
               files |-> d ]
        [] u.pc = "authMethod" ->
             [ ui |-> IF trim(value) = << "2" >> /\ provider.authUrl # <<>>
                        THEN [ v EXCEPT !.flow.authMethod = "oauth", !.pc = "open" ]
                        ELSE prompt([ v EXCEPT !.flow.authMethod = "key" ], "token"),
               files |-> d ]
        [] u.pc = "token" ->
             [ ui |-> IF trim(value) = <<>>
                        THEN [ v EXCEPT !.pc = "sleep", !.notice = "noToken" ]
                        ELSE prompt([ v EXCEPT !.flow.authToken = value ], "model"),
               files |-> d ]
        [] u.pc = "model" ->
             [ ui |-> prompt([ v EXCEPT !.flow.model =
                                 OrElse(trim(value), provider.defaultModel) ],
                             "timeout"),
               files |-> d ]
        [] u.pc = "timeout" ->
             [ ui |-> IF ENOENT(d)
                        THEN [ v EXCEPT !.pc = "rejected", !.notice = "ENOENT" ]
                        ELSE [ v EXCEPT !.pc = "sleep", !.notice = "saved" ],
               files |-> legacySaveProfile(d, legacyProfile(u, d, value)) ]

\* The name under which a key that no branch tests is recorded.
KeyName(k) == IF k.kind = "char" THEN k.ch ELSE k.kind

\* main: the menu loop.  Ctrl-C arrives as the character ETX, which the test
\* `key.char === 'c'` does not match.
LegacyMainKey ==
  /\ ui.app = "legacy" /\ ui.pc = "main"
  /\ \E k \in LegacyKeys :
       LET view == legacyMenuItems[ui.selected + 1]
       IN  /\ ui' =
                CASE k.kind = "escape" \/ IsChar(k, "q") ->
                       [ ui EXCEPT !.pc = "returned", !.raw = FALSE ]
                  [] k.kind = "up" \/ IsChar(k, "k") ->
                       [ ui EXCEPT !.selected = StepUp(ui.selected, Len(legacyMenuItems)) ]
                  [] k.kind = "down" \/ IsChar(k, "j") ->
                       [ ui EXCEPT !.selected = StepDown(ui.selected, Len(legacyMenuItems)) ]
                  [] k.kind = "return" \/ IsChar(k, " ") ->
                       IF view = "switch" /\ Len(loadProfiles(files)) = 0 THEN ui
                       ELSE [ ui EXCEPT !.pc = view, !.swSelected = 0, !.cfgSelected = 0 ]
                  [] OTHER -> ui
           /\ last' = IF k.kind \in { "backspace", "ctrl-c" } \/ IsChar(k, "a")
                         \/ IsChar(k, "2") \/ IsChar(k, "9")
                        THEN Ignored(KeyName(k)) ELSE Idle
  /\ files' = files

\* switchProfile: the key loop over the profiles.  Enter prints how to
\* export the selected profile and returns to the menu.
LegacySwitchKey ==
  /\ ui.app = "legacy" /\ ui.pc = "switch"
  /\ \E k \in LegacyKeys :
       LET profiles == loadProfiles(files)
           n        == Len(profiles)
       IN  /\ ui' =
                CASE k.kind = "up" \/ IsChar(k, "k") ->
                       [ ui EXCEPT !.swSelected = StepUp(ui.swSelected, n) ]
                  [] k.kind = "down" \/ IsChar(k, "j") ->
                       [ ui EXCEPT !.swSelected = StepDown(ui.swSelected, n) ]
                  [] k.kind \in { "return", "escape" } ->
                       [ ui EXCEPT !.pc = "main", !.swSelected = 0 ]
                  [] OTHER -> ui
           /\ last' =
                CASE k.kind = "return" -> [ op |-> "switching", profile |-> profiles[ui.swSelected + 1] ]
                  [] k.kind \in { "up", "down", "escape" } \/ IsChar(k, "k")
                       \/ IsChar(k, "j") -> Idle
                  [] OTHER -> Ignored(KeyName(k))
  /\ files' = files

\* configure: the key loop over the catalog.  Enter starts
\* configureProvider, which runs to its first prompt.
LegacyConfigureKey ==
  /\ ui.app = "legacy" /\ ui.pc = "configure"
  /\ \E k \in LegacyKeys :
       LET n == Len(KNOWN_PROVIDERS)
       IN  /\ k.kind = "return" => ui.cfgSelected < MaxProvider
           /\ ui' =
                CASE k.kind = "up" \/ IsChar(k, "k") ->
                       [ ui EXCEPT !.cfgSelected = StepUp(ui.cfgSelected, n) ]
                  [] k.kind = "down" \/ IsChar(k, "j") ->
                       [ ui EXCEPT !.cfgSelected = StepDown(ui.cfgSelected, n) ]
                  [] k.kind = "return" ->
                       LET provider == KNOWN_PROVIDERS[ui.cfgSelected + 1]
                       IN  prompt([ ui EXCEPT !.notice = "none",
                                      !.flow = [ provider   |-> provider,
                                                 baseUrl    |-> provider.baseUrl,
                                                 authMethod |-> "key",
                                                 authToken  |-> <<>>,
                                                 model      |-> <<>> ] ],
                                  "url")
                  [] k.kind = "escape" ->
                       [ ui EXCEPT !.pc = "main", !.cfgSelected = 0 ]
                  [] OTHER -> ui
           /\ last' =
                IF k.kind \in { "up", "down", "return", "escape" } \/ IsChar(k, "k")
                     \/ IsChar(k, "j")
                  THEN Idle ELSE Ignored(KeyName(k))
  /\ files' = files

\* setupStdin's keypress handler with a pending prompt: Escape resolves it
\* with the empty string, Enter with the buffer, backspace drops a
\* character, and every single character is appended, ETX included.
LegacyPromptKey ==
  /\ ui.app = "legacy" /\ ui.pc \in LegacyPrompts
  /\ \E k \in LegacyKeys :
       /\ k.kind = "char" => k.ch \in LegacyTypable(ui.pc)
       /\ k.kind \in { "char", "ctrl-c" } => Len(ui.inputBuffer) < MaxTyped
       /\ k.kind = "ctrl-c" => ui.pc = "model"
       /\ \E w \in { legacyConfigureProvider(ui, files,
                       IF k.kind = "return" THEN ui.inputBuffer ELSE <<>>) } :
            /\ ui' = CASE k.kind \in { "return", "escape" } -> w.ui
                       [] k.kind = "backspace" ->
                            [ ui EXCEPT !.inputBuffer = DropLast(ui.inputBuffer) ]
                       [] k.kind = "char" ->
                            [ ui EXCEPT !.inputBuffer = Append(ui.inputBuffer, k.ch) ]
                       [] k.kind = "ctrl-c" ->
                            [ ui EXCEPT !.inputBuffer = Append(ui.inputBuffer, ETX) ]
                       [] OTHER -> ui
            /\ files' = IF k.kind \in { "return", "escape" } THEN w.files ELSE files
            /\ Len(loadProfiles(files')) <= MaxProfiles
       /\ last' = IF k.kind \in { "up", "down" } THEN Ignored(KeyName(k)) ELSE Idle

\* listProfiles, showCurrent, showExport: any key returns to the menu.
LegacyAnyKey ==
  /\ ui.app = "legacy" /\ ui.pc \in { "list", "current", "export" }
  /\ ui' = [ ui EXCEPT !.pc = "main" ]
  /\ files' = files /\ last' = Idle

\* The 1500 ms pause after a message ends: configureProvider returns to
\* configure, which draws its list and turns raw mode on.
LegacySleepEnds ==
  /\ ui.app = "legacy" /\ ui.pc = "sleep"
  /\ ui' = [ ui EXCEPT !.pc = "configure", !.raw = TRUE, !.flow = NoFlow,
                       !.notice = "none" ]
  /\ files' = files /\ last' = Idle

\* configureProvider: execSync on the command that opens the provider's
\* page returns, or throws into the catch, and the token prompt opens.
LegacyOpenEnds ==
  /\ ui.app = "legacy" /\ ui.pc = "open"
  /\ ui' = prompt(ui, "token")
  /\ files' = files /\ last' = Idle

\* Ctrl-C out of raw mode: the terminal raises SIGINT, for which the program
\* has no handler.
LegacySigint ==
  /\ ui.app = "legacy" /\ ui.pc \in { "sleep", "open", "returned", "rejected" }
  /\ ui' = [ ui EXCEPT !.pc = "killed" ]
  /\ files' = files /\ last' = Idle

LegacyInit ==
  /\ last = Idle
  /\ files \in { MissingDir, EmptyDir, ClaudeDir, UiSeedDir }
  /\ ui = LegacyStart

LegacyNext ==
  \/ LegacyMainKey
  \/ LegacySwitchKey
  \/ LegacyConfigureKey
  \/ LegacyPromptKey
  \/ LegacyAnyKey
  \/ LegacyOpenEnds
  \/ LegacySleepEnds
  \/ LegacySigint

LegacySpec == LegacyInit /\ [][LegacyNext]_vars

(***************************************************************************)
(* The first Ink application (the App with AuthForm): a menu beside one of *)
(* six views, the catalog as the configure list, and the token asked with  *)
(* a readline question while Ink keeps reading the same stdin.  A profile  *)
(* is stored under its provider id, and choosing one prints the export     *)
(* command.  Every mounted useInput handler receives every key; here the   *)
(* handlers of one key write different state, so their order is immaterial.*)
(* ui.phase is "running", "exited", "killed", or "deaf": closing the       *)
(* readline interface pauses stdin and leaves raw mode, after which Ink    *)
(* matches no key any more.                                                *)
(***************************************************************************)
afMenuItems == << "switch", "configure", "list", "export", "current" >>

\* The application after render(<App />).
AfStart ==
  [ app |-> "authForm", phase |-> "running", raw |-> TRUE, view |-> "main",
    menuIndex |-> 0, selectedProvider |-> NotFound,
    lastSwitchedProfile |-> NotFound, swSelected |-> 0, cfgSelected |-> 0,
    line |-> <<>>, notice |-> "none", exitCode |-> Null ]

\* The keys drawn while a view is shown.
AfKeys ==
  { Key(kind) : kind \in { "return", "escape", "up", "down" } }
  \cup { CharKey(c) : c \in { "j", "k", " ", "q" } }

\* App.useInput, for a key other than Ctrl-C.
AfAppInput(w, s, k) ==
  IF s.view = "main" /\ (IsChar(k, "j") \/ k.kind = "down")
    THEN [ w EXCEPT !.menuIndex = StepDown(s.menuIndex, Len(afMenuItems)) ]
  ELSE IF s.view = "main" /\ (IsChar(k, "k") \/ k.kind = "up")
    THEN [ w EXCEPT !.menuIndex = StepUp(s.menuIndex, Len(afMenuItems)) ]
  ELSE IF s.view = "main" /\ (k.kind = "return" \/ IsChar(k, " "))
    THEN [ w EXCEPT !.view = afMenuItems[s.menuIndex + 1] ]
  ELSE IF k.kind = "escape"
    THEN [ w EXCEPT !.view = "main", !.selectedProvider = NotFound ]
  ELSE w

\* Menu.useInput: onSelect is setMenuIndex.
AfMenuInput(w, s, k) ==
  IF IsChar(k, "j") \/ k.kind = "down"
    THEN [ w EXCEPT !.menuIndex = StepDown(s.menuIndex, Len(afMenuItems)) ]
  ELSE IF IsChar(k, "k") \/ k.kind = "up"
    THEN [ w EXCEPT !.menuIndex = StepUp(s.menuIndex, Len(afMenuItems)) ]
  ELSE w

\* SwitchView.useInput; Enter calls handleSwitch, which only prints and
\* records the name of a profile that has a token.
AfSwitchInput(w, s, d, k) ==
  LET profiles == loadProfiles(d)
      n        == Len(profiles)
  IN  IF IsChar(k, "j") \/ k.kind = "down"
        THEN [ w EXCEPT !.swSelected = StepDown(s.swSelected, n) ]
      ELSE IF IsChar(k, "k") \/ k.kind = "up"
        THEN [ w EXCEPT !.swSelected = StepUp(s.swSelected, n) ]
      ELSE IF k.kind = "return" /\ n > 0
        THEN LET profile == profiles[s.swSelected + 1]
             IN  IF EnvGet(profile.env, "ANTHROPIC_AUTH_TOKEN") # <<>>
                   THEN [ w EXCEPT !.lastSwitchedProfile = profile.name,
                                   !.notice = "switching" ]
                   ELSE [ w EXCEPT !.notice = "needsToken" ]
      ELSE w

\* ConfigureView.useInput; Enter calls handleConfigure.
AfConfigureInput(w, s, k) ==
  IF IsChar(k, "j") \/ k.kind = "down"
    THEN [ w EXCEPT !.cfgSelected = StepDown(s.cfgSelected, Len(KNOWN_PROVIDERS)) ]
  ELSE IF IsChar(k, "k") \/ k.kind = "up"
    THEN [ w EXCEPT !.cfgSelected = StepUp(s.cfgSelected, Len(KNOWN_PROVIDERS)) ]
  ELSE IF k.kind = "return"
    THEN [ w EXCEPT !.selectedProvider = KNOWN_PROVIDERS[s.cfgSelected + 1] ]
  ELSE w

\* The render after the updates: a view that was not shown before mounts
\* with its selection at 0, and AuthForm asks its question on an empty line.
AfRendered(w, s) ==
  IF w.view # s.view \/ w.selectedProvider # s.selectedProvider
    THEN [ w EXCEPT !.swSelected = 0, !.cfgSelected = 0, !.line = <<>> ]
    ELSE w

\* A key while a view is shown: App, Menu and the view handle it.
AfKey ==
  /\ ui.app = "authForm" /\ ui.phase = "running" /\ ui.selectedProvider = NotFound
  /\ \E k \in AfKeys :
       LET s  == [ ui EXCEPT !.notice = "none" ]
           w1 == AfMenuInput(AfAppInput(s, s, k), s, k)
           w2 == CASE s.view = "switch" -> AfSwitchInput(w1, s, files, k)
                   [] s.view = "configure" -> AfConfigureInput(w1, s, k)
                   [] OTHER -> w1
       IN  /\ (s.view = "configure" /\ k.kind = "return") => s.cfgSelected < MaxProvider
           /\ ui' = AfRendered(w2, s)
           /\ last' = IF IsChar(k, "q") THEN Ignored("q") ELSE Idle
  /\ files' = files

\* The readline interface of AuthForm is closed (rl.close()): stdin is
\* paused and out of raw mode.  With an Ink that reads 'data' events nothing
\* keeps the process alive and it ends with code 0; with an Ink that reads
\* 'readable' events it stays, receives whole lines, and matches no key.
AfClosed(u) ==
  { [ u EXCEPT !.phase = "exited", !.raw = FALSE, !.exitCode = 0 ],
    [ u EXCEPT !.phase = "deaf", !.raw = FALSE ] }

\* The profile handleAuthComplete saves for a token that is not blank.
afProfile(u, d, token) ==
  LET provider        == u.selectedProvider
      existingProfile == getProfile(d, provider.id)
      profile == IF existingProfile # NotFound THEN existingProfile
                 ELSE [ name |-> provider.name, provider |-> provider.id,
                        env |-> NoEnv ]
      env     == SetEnv(profile.env,
                   [ ANTHROPIC_AUTH_TOKEN |-> trim(token),
                     ANTHROPIC_BASE_URL   |-> provider.baseUrl ])
  IN  [ name     |-> profile.name,
        provider |-> profile.provider,
        env      |-> IF EnvGet(env, "ANTHROPIC_MODEL") = <<>>
                       THEN SetEnv(env, [ ANTHROPIC_MODEL |-> provider.defaultModel ])
                       ELSE env ]

\* A character or backspace while the question is asked: readline edits its
\* line, and no branch of App.useInput matches (the view is 'configure').
AfQuestionKey ==
  /\ ui.app = "authForm" /\ ui.phase = "running" /\ ui.selectedProvider # NotFound
  /\ \/ /\ Len(ui.line) < MaxTyped
        /\ \E c \in { "a", " " } : ui' = [ ui EXCEPT !.line = Append(ui.line, c) ]
     \/ ui' = [ ui EXCEPT !.line = DropLast(ui.line) ]
  /\ files' = files /\ last' = Idle

\* Enter while the question is asked: the callback closes the interface and
\* calls handleAuthComplete with the line.  saveProfile does not create the
\* directory: its ENOENT is an uncaught exception that ends the process.
AfAnswer ==
  /\ ui.app = "authForm" /\ ui.phase = "running" /\ ui.selectedProvider # NotFound
  /\ LET saves == trim(ui.line) # <<>>
         p     == afProfile(ui, files, ui.line)
     IN  IF saves /\ ENOENT(files)
           THEN /\ ui' = [ ui EXCEPT !.phase = "exited", !.raw = FALSE,
                                     !.notice = "ENOENT", !.exitCode = 1 ]
                /\ files' = files
           ELSE /\ ui' \in AfClosed([ ui EXCEPT !.selectedProvider = NotFound,
                                                  !.view = "configure",
                                                  !.line = <<>>,
                                                  !.notice = IF saves THEN "saved"
                                                             ELSE "none" ])
                /\ files' = IF saves THEN legacySaveProfile(files, p) ELSE files
                /\ Len(loadProfiles(files')) <= MaxProfiles
  /\ last' = Idle

\* Escape while the question is asked: App shows the main view, AuthForm
\* unmounts and its cleanup closes the interface.
AfEscape ==
  /\ ui.app = "authForm" /\ ui.phase = "running" /\ ui.selectedProvider # NotFound
  /\ ui' \in AfClosed([ ui EXCEPT !.selectedProvider = NotFound, !.view = "main",
                                    !.line = <<>>, !.notice = "none" ])
  /\ files' = files /\ last' = Idle

\* Ctrl-C in raw mode: Ink, or App.useInput with process.exit(0), ends the
\* program with code 0.
AfCtrlC ==
  /\ ui.app = "authForm" /\ ui.phase = "running"
  /\ ui' = [ ui EXCEPT !.phase = "exited", !.raw = FALSE, !.exitCode = 0 ]
  /\ files' = files /\ last' = Idle

\* Ctrl-C out of raw mode: the terminal raises SIGINT.
AfSigint ==
  /\ ui.app = "authForm" /\ ui.phase = "deaf"
  /\ ui' = [ ui EXCEPT !.phase = "killed" ]
  /\ files' = files /\ last' = Idle

AfInit ==
  /\ last = Idle
  /\ files \in { MissingDir, EmptyDir, ClaudeDir, UiSeedDir }
  /\ ui = AfStart

AfNext ==
  \/ AfKey
  \/ AfQuestionKey
  \/ AfAnswer
  \/ AfEscape
  \/ AfCtrlC
  \/ AfSigint

AfSpec == AfInit /\ [][AfNext]_vars

(***************************************************************************)
(* The command line.  main of the readline program (part_000) and main of  *)
(* the older cli.ts read the arguments, whether stdin is a terminal, the   *)
(* environment of the process and the profile directory, and either print  *)
(* the answer of a command or start the menu.  ui holds the invocation,    *)
(* last what was printed.                                                  *)
(***************************************************************************)
sHelpFlag == << "-", "-", "h", "e", "l", "p" >>

sHFlag == << "-", "h" >>

sListCmd == << "l", "i", "s", "t" >>

sCurrentCmd == << "c", "u", "r", "r", "e", "n", "t" >>

sExportCmd == << "e", "x", "p", "o", "r", "t" >>

\* An argument that names no command.
sFoo == << "f", "o", "o" >>

\* The argument vectors drawn (process.argv.slice(2)).
ArgVectors ==
  { << >>, << sHelpFlag >>, << sHFlag >>, << sListCmd >>, << sCurrentCmd >>,
    << sExportCmd >>, << sExportCmd, << "a" >> >>, << sExportCmd, << "A" >> >>,
    << sExportCmd, sFoo >>, << sFoo >>, << sFoo, sListCmd >> }

\* The env mappings drawn, for a stored profile and for the process: none
\* of the variables, the token alone, token and base URL, these with a
\* model, both set to the empty string, and another token.
CmdEnvs ==
  { NoEnv,
    [ ANTHROPIC_AUTH_TOKEN |-> << "a" >> ],
    [ ANTHROPIC_AUTH_TOKEN |-> << "a" >>, ANTHROPIC_BASE_URL |-> << "a" >> ],
    [ ANTHROPIC_AUTH_TOKEN |-> << "a" >>, ANTHROPIC_BASE_URL |-> << "a" >>,
      ANTHROPIC_MODEL |-> << "m" >> ],
    [ ANTHROPIC_AUTH_TOKEN |-> << >>, ANTHROPIC_BASE_URL |-> << >> ],
    [ ANTHROPIC_AUTH_TOKEN |-> << "b" >>, ANTHROPIC_BASE_URL |-> << "a" >> ] }

\* The directories drawn: a.json and b.json, each absent or a profile file
\* with one of the env mappings.
CmdDirs ==
  LET With(d, key, e) ==
        WriteFile(d, key \o DotJson, Json([ name |-> key, provider |-> key, env |-> e ]))
      First == { MissingDir, EmptyDir } \cup { With(EmptyDir, << "a" >>, e) : e \in CmdEnvs }
  IN  First \cup { With(d, << "b" >>, e) : d \in First \ { MissingDir }, e \in CmdEnvs }

\* (p.env[key] || '') === value: a missing key taken for the empty string.
LooseEq(env, key, value) == EnvGet(env, key) = value

\* p.env[key] === value, for a string value: a missing key is undefined
\* and equal to no string.
StrictEq(env, key, value) == key \in DOMAIN env /\ env[key] = value

\* The loop of main ('current') and of showCurrent: the first listed
\* profile whose token and base URL are those of the process.
currentProfile(d, penv) ==
  LET currentToken == EnvGet(penv, "ANTHROPIC_AUTH_TOKEN")
      currentUrl   == EnvGet(penv, "ANTHROPIC_BASE_URL")
      all          == loadProfiles(d)
  IN  FindFirst(all, { i \in 1..Len(all) :
                         /\ StrictEq(all[i].env, "ANTHROPIC_AUTH_TOKEN", currentToken)
                         /\ StrictEq(all[i].env, "ANTHROPIC_BASE_URL", currentUrl) })

\* What an invocation prints or starts, and the profile it is about.
Out(kind, profile) == [ op |-> "main", out |-> kind, profile |-> profile ]

\* The commands both programs share: list, current, export <name>.
Command(d, args, penv) ==
  IF args[1] = sListCmd THEN Out("list", NotFound)
  ELSE IF args[1] = sCurrentCmd THEN Out("current", currentProfile(d, penv))
  ELSE IF Len(args) < 2 \/ args[2] = << >> THEN Out("usage", NotFound)
  ELSE IF getProfile(d, args[2]) = NotFound THEN Out("notFound", NotFound)
  ELSE Out("export", getProfile(d, args[2]))

\* part_000 main
main(d, args, isTTY, penv) ==
  IF Len(args) = 0 THEN
    IF ~isTTY THEN Out("needsTerminal", NotFound) ELSE Out("menu", NotFound)
  ELSE IF args[1] \in { sHelpFlag, sHFlag } THEN Out("help", NotFound)
  ELSE IF args[1] \in { sListCmd, sCurrentCmd, sExportCmd } THEN Command(d, args, penv)
  ELSE Out("nothing", NotFound)

\* cli.ts main
legacyMain(d, args, isTTY, penv) ==
  IF Len(args) = 0 THEN Out("help", NotFound)
  ELSE IF args[1] \in { sHelpFlag, sHFlag } THEN Out("help", NotFound)
  ELSE IF args[1] \in { sListCmd, sCurrentCmd, sExportCmd } THEN Command(d, args, penv)
  ELSE IF ~isTTY THEN Out("needsTerminal", NotFound)
  ELSE Out("menu", NotFound)

\* The invocation before main runs.
Shell(program, args, isTTY, penv) ==
  [ app |-> "shell", program |-> program, args |-> args, isTTY |-> isTTY,
    env |-> penv ]

CmdInit ==
  /\ files \in CmdDirs
  /\ last = Idle
  /\ ui \in { Shell(program, args, isTTY, penv) :
                program \in { "part_000", "cli.ts" }, args \in ArgVectors,
                isTTY \in BOOLEAN, penv \in CmdEnvs }

\* part_000: main runs to its return, or into interactiveMode.
MainRuns ==
  /\ ui.app = "shell" /\ ui.program = "part_000"
  /\ last' = main(files, ui.args, ui.isTTY, ui.env)
  /\ ui' = IF last'.out = "menu" THEN CliStart ELSE [ ui EXCEPT !.app = "done" ]
  /\ files' = files

\* cli.ts: main runs to its return, or into its menu loop.
LegacyMainRuns ==
  /\ ui.app = "shell" /\ ui.program = "cli.ts"
  /\ last' = legacyMain(files, ui.args, ui.isTTY, ui.env)
  /\ ui' = IF last'.out = "menu" THEN LegacyStart ELSE [ ui EXCEPT !.app = "done" ]
  /\ files' = files

\* An invocation, and for cli.ts the menu loop it enters; the menu of
\* part_000 is followed from CliStart in UiSpec.
CmdNext ==
  \/ MainRuns
  \/ LegacyMainRuns
  \/ LegacyNext

CmdSpec == CmdInit /\ [][CmdNext]_vars

(***************************************************************************)
(* Claims about the command line.                                          *)
(***************************************************************************)
\* The 'current' command runs.
RunsCurrent ==
  /\ ui.app = "shell" /\ ui.args # << >> /\ ui.args[1] = sCurrentCmd
  /\ MainRuns \/ LegacyMainRuns

\* The value of a variable of the process, the empty string when unset.
Live(key) == IF key \in DOMAIN ui.env THEN ui.env[key] ELSE << >>

\* The listed profiles whose env holds the live token and the live base URL.
SameSession ==
  { i \in 1..Len(loadProfiles(files)) :
      \A key \in { "ANTHROPIC_AUTH_TOKEN", "ANTHROPIC_BASE_URL" } :
        /\ key \in DOMAIN loadProfiles(files)[i].env
        /\ loadProfiles(files)[i].env[key] = Live(key) }

\* The process environment with the model variable unset, and set to m.
WithoutModel(penv) ==
  [ key \in DOMAIN penv \ { "ANTHROPIC_MODEL" } |-> penv[key] ]

WithModel(penv, m) ==
  [ key \in DOMAIN penv \cup { "ANTHROPIC_MODEL" } |->
      IF key = "ANTHROPIC_MODEL" THEN m ELSE penv[key] ]

ModelVariants(penv) ==
  { WithoutModel(penv) } \cup { WithModel(penv, m) : m \in { << "m" >>, << "x" >> } }

\* C21: 'current' reports a saved profile exactly when some listed profile
\* has the live token and the live base URL, and then the first of them in
\* listing order; otherwise it reports none.  The model variable of the
\* process does not change the answer.
C21_CurrentMatchesTokenAndUrl ==
  [][ RunsCurrent =>
        /\ last'.out = "current"
        /\ (last'.profile # NotFound) <=> (SameSession # {})
        /\ SameSession # {} =>
             /\ last'.profile \in { loadProfiles(files)[i] : i \in SameSession }
             /\ \A i \in SameSession :
                  \E j \in 1..i : loadProfiles(files)[j] = last'.profile
        /\ \A penv \in ModelVariants(ui.env) :
             currentProfile(files, penv) = last'.profile
    ]_vars

\* 'current' has reported the second listed profile: the first one has the
\* live token but not the live base URL.
C21_Witness ==
  /\ ui.app = "done" /\ ui.program = "part_000"
  /\ last.op = "main" /\ last.out = "current"
  /\ Len(loadProfiles(files)) = 2
  /\ last.profile = loadProfiles(files)[2]
  /\ last.profile.env["ANTHROPIC_AUTH_TOKEN"] = << "a" >>
  /\ StrictEq(loadProfiles(files)[1].env, "ANTHROPIC_AUTH_TOKEN", << "a" >>)

\* The output of the non-interactive command an argument vector names, or
\* the empty set when it names none.
NonInteractive(args) ==
  IF args = << >> THEN { }
  ELSE IF args[1] \in { sHelpFlag, sHFlag } THEN { "help" }
  ELSE IF args[1] = sListCmd THEN { "list" }
  ELSE IF args[1] = sCurrentCmd THEN { "current" }
  ELSE IF args[1] = sExportCmd /\ Len(args) >= 2 /\ args[2] # << >>
    THEN { "export", "notFound" }
  ELSE { }

\* 'export' with no profile name: neither 'export <name>' nor an invocation
\* of the menu.
BareExport(args) ==
  /\ args # << >> /\ args[1] = sExportCmd
  /\ NonInteractive(args) = { }

\* C22: 'list', 'current', 'export <name>' and the help flags run their
\* non-interactive command; every other invocation on an interactive
\* terminal, the one with no arguments included, enters the menu.
C22_Dispatch ==
  [][ (ui.app = "shell" /\ (MainRuns \/ LegacyMainRuns)) =>
        /\ NonInteractive(ui.args) # { } =>
             /\ last'.out \in NonInteractive(ui.args)
             /\ ui'.app = "done"
        /\ (NonInteractive(ui.args) = { } /\ ~BareExport(ui.args) /\ ui.isTTY) =>
             /\ last'.out = "menu"
             /\ ui'.app \in { "cli", "legacy" }
    ]_vars

(***************************************************************************)
(* Claims about the views of the Ink application.                          *)
(***************************************************************************)
\* The keys pressed in the configure view, Ctrl-C (which ends the program)
\* aside.
CfgKeys ==
  { Key(kind) : kind \in { "escape", "return", "up", "down", "tab", "backspace" } }
    \cup { CharKey(c) : c \in { "j", "k", "q", "d", "y", "n", " " } }

\* The configure view is shown.
InConfigure == ui.app = "ink" /\ ui.phase = "running" /\ Shown(ui) = "configure"

\* The confirmation dialog of the configure view is open.
DialogOpen == InConfigure /\ ui.cfg.confirmDelete # NotFound

\* The dialog is (still) open after the step.
DialogOpenAfter ==
  /\ ui'.phase = "running" /\ Shown(ui') = "configure"
  /\ ui'.cfg.confirmDelete # NotFound

\* C23: in the configure view the store changes only by 'y' in the dialog,
\* which only 'd' on a profile row opens; with the dialog open, 'n' and
\* Escape close it and leave the store alone, and every other key leaves
\* the dialog open and the store alone.
C23_RemovalNeedsConfirmation ==
  [][ \A k \in CfgKeys :
        (InConfigure /\ Pressed(k)) =>
          /\ files' # files => (DialogOpen /\ k = CharKey("y"))
          /\ (~DialogOpen /\ DialogOpenAfter) =>
               (k = CharKey("d") /\ ui.cfg.selected > 0)
          /\ (DialogOpen /\ k \in { CharKey("n"), Key("escape") }) =>
               (~DialogOpenAfter /\ files' = files)
          /\ (DialogOpen /\ k \notin { CharKey("y"), CharKey("n"), Key("escape") }) =>
               (DialogOpenAfter /\ files' = files)
    ]_vars

\* The editor or the add-provider form is displayed.
FormShown(u) ==
  u.app = "ink" /\ u.phase = "running" /\ Shown(u) \in { "editor", "form" }

\* The fields of the form displayed, and the active one.
FieldsOf(u) == IF Shown(u) = "editor" THEN EditorFields ELSE FormFields
ActiveField(u) == FieldsOf(u)[u.form.activeIndex + 1]

\* The keys pressed in a form that neither submit nor cancel it.
FormKeys ==
  { Key(kind) : kind \in { "tab", "down", "up", "backspace" } }
    \cup { CharKey(c) : c \in { "a", "b", "q", " " } }

\* C24: a key pressed in a form that is neither Enter nor Escape leaves
\* the form displayed; a character key appends to the active field,
\* backspace drops its last character, tab and down move to the next field
\* and up to the previous one, both wrapping; the active index stays an
\* index of a field and no other field changes.
C24_FormKeysEditActiveField ==
  [][ \A k \in FormKeys :
        (FormShown(ui) /\ Pressed(k)) =>
          LET fields == FieldsOf(ui)
              i      == ui.form.activeIndex
              n      == Len(fields)
              active == ActiveField(ui)
          IN  /\ FormShown(ui') /\ Shown(ui') = Shown(ui)
              /\ ui'.form.activeIndex \in 0..(n - 1)
              /\ k.kind = "char" =>
                   /\ ui'.form.values[active] = Append(ui.form.values[active], k.ch)
                   /\ ui'.form.activeIndex = i
              /\ k.kind = "backspace" =>
                   /\ ui'.form.values[active] = DropLast(ui.form.values[active])
                   /\ ui'.form.activeIndex = i
              /\ k.kind \in { "tab", "down" } =>
                   /\ ui'.form.activeIndex = (i + 1) % n
                   /\ ui'.form.values = ui.form.values
              /\ k.kind = "up" =>
                   /\ ui'.form.activeIndex = (i - 1 + n) % n
                   /\ ui'.form.values = ui.form.values
              /\ \A f \in DOMAIN ui.form.values \ { active } :
                   ui'.form.values[f] = ui.form.values[f]
    ]_vars

(***************************************************************************)
(* Claims about the selection of the list views.                           *)
(***************************************************************************)
\* The list view on screen ("none" when what is shown is not a list), the
\* number of its rows and its selection.
ListView(u) ==
  IF u.app = "cli" THEN (IF u.pc \in KeyLoops THEN u.pc ELSE "none")
  ELSE IF u.app = "ink" /\ u.phase = "running"
            /\ Shown(u) \in { "main", "switch", "configure" }
            /\ (Shown(u) = "configure" => u.cfg.confirmDelete = NotFound)
    THEN Shown(u)
  ELSE "none"

Rows(u, d) ==
  IF u.app = "cli" THEN
    CASE u.pc = "main" -> Len(cliMenuItems)
      [] u.pc = "switch" -> Len(loadProfiles(d))
      [] u.pc \in { "configure", "addNew" } -> Len(KNOWN_PROVIDERS) + 1
      [] u.pc = "auth" -> 2
  ELSE
    CASE Shown(u) = "main" -> Len(menuItems)
      [] Shown(u) = "switch" -> Len(loadProfiles(d))
      [] Shown(u) = "configure" -> Len(loadProfiles(d)) + 1

Selected(u) ==
  IF u.app = "cli" THEN
    CASE u.pc = "main" -> u.selected
      [] u.pc = "switch" -> u.swSelected
      [] u.pc = "configure" -> u.cfgSelected
      [] u.pc = "addNew" -> u.addSelected
      [] u.pc = "auth" -> u.flow.authMethodSelected
  ELSE
    CASE Shown(u) = "main" -> u.menuIndex
      [] Shown(u) = "switch" -> u.sw.selected
      [] Shown(u) = "configure" -> u.cfg.selected

\* A movement key of the readline program's key loops.
CliMove == MainMove \/ SwitchMove \/ ConfigureMove \/ AddNewMove \/ AuthMove

\* The keys that move the selection down, and up.
DownKeys == { Key("down"), CharKey("j") }
UpKeys == { Key("up"), CharKey("k") }

\* i after m steps down, and up, in a list of n rows.
RECURSIVE DownTimes(_, _, _)
DownTimes(i, n, m) == IF m = 0 THEN i ELSE DownTimes(StepDown(i, n), n, m - 1)
RECURSIVE UpTimes(_, _, _)
UpTimes(i, n, m) == IF m = 0 THEN i ELSE UpTimes(StepUp(i, n), n, m - 1)

\* C25: in a list view of n >= 1 rows, down or 'j' moves the selection from
\* i to (i + 1) mod n and up or 'k' to (i - 1) mod n, the view staying on
\* screen, and n steps the same way lead back to i.
C25_SelectionCycles ==
  [][ (ListView(ui) # "none" /\ Rows(ui, files) >= 1) =>
        LET i == Selected(ui)
            n == Rows(ui, files)
        IN  /\ (ui.app = "cli" /\ CliMove) =>
                 /\ ListView(ui') = ListView(ui)
                 /\ Selected(ui') \in { (i + 1) % n, (i - 1 + n) % n }
            /\ \A k \in DownKeys :
                 (ui.app = "ink" /\ Pressed(k)) =>
                   /\ ListView(ui') = ListView(ui)
                   /\ Selected(ui') = (i + 1) % n
            /\ \A k \in UpKeys :
                 (ui.app = "ink" /\ Pressed(k)) =>
                   /\ ListView(ui') = ListView(ui)
                   /\ Selected(ui') = (i - 1 + n) % n
            /\ DownTimes(i, n, n) = i
            /\ UpTimes(i, n, n) = i
    ]_vars

\* The last row of the Ink configure view with two profiles is selected,
\* and the last entry of the main menu behind it.
C25_Witness ==
  /\ ui.app = "ink" /\ ListView(ui) = "configure"
  /\ Len(loadProfiles(files)) = 2
  /\ ui.cfg.selected = 2
  /\ ui.menuIndex = 1

\* C26: whenever a list view is on screen its selection is an index of one
\* of its rows (0 <= selected < rows); in a list with no rows it is the
\* initial 0.
C26_SelectionInRange ==
  ListView(ui) # "none" =>
    IF Rows(ui, files) = 0 THEN Selected(ui) = 0
    ELSE Selected(ui) \in 0..(Rows(ui, files) - 1)

\* The printable characters pressed in a form.
TextChars == { "a", "b", "q", "j", "k", " " }

\* C27: while the editor or the add-provider form is displayed, a printable
\* character changes neither the navigation stack nor the selection of the
\* main menu nor the profile being edited, and the form stays displayed.
C27_CharactersOnlyEdit ==
  [][ \A c \in TextChars :
        (FormShown(ui) /\ Pressed(CharKey(c))) =>
          /\ ui'.viewStack = ui.viewStack
          /\ ui'.menuIndex = ui.menuIndex
          /\ ui'.selectedProfile = ui.selectedProfile
          /\ ui'.addingCustomProvider = ui.addingCustomProvider
    ]_vars

\* C28: the navigation stack of the Ink application is never empty, its
\* bottom element is the main menu and it is at most two deep.
C28_StackShape ==
  ui.app = "ink" =>
    /\ ui.viewStack # << >>
    /\ ui.viewStack[1] = "main"
    /\ Len(ui.viewStack) <= 2

(***************************************************************************)
(* Claims about the prompts of the readline program.                       *)
(***************************************************************************)
\* C29: whatever views were visited before, a pending text prompt has the
\* keypress listener that resolves it, so that the next Enter resolves it
\* with the typed buffer and the next Escape with the empty string.
C29_PromptsResolve ==
  (ui.app = "cli" /\ ui.pc \in PromptPcs) => ui.hooked

(***************************************************************************)
(* Either program started on an empty profiles directory.                  *)
(***************************************************************************)
UiEmptyInit ==
  /\ last = Idle
  /\ files \in { MissingDir, EmptyDir }
  /\ ui \in { CliStart, InkStart }

UiEmptySpec == UiEmptyInit /\ [][UiNext]_vars

\* C30: from an empty store, whatever is added and edited through either
\* program, no two stored profiles have names that are equal without regard
\* to case, and every stored profile has a file of its own.
C30_NamesUnique ==
  LET profiles == loadProfiles(files)
  IN  /\ \A i, j \in 1..Len(profiles) :
           toLowerCase(profiles[i].name) = toLowerCase(profiles[j].name) => i = j
      /\ Cardinality({ f \in DOMAIN files : IsProfileFile(f) /\ files[f].parses })
           = Len(profiles)

====
